---- MODULE Spec2Model ----
(***************************************************************************)
(* Model of the prompt classification and templating core of Evolv:        *)
(* ingestion with exact / SimHash de-duplication, the classification       *)
(* worker (bootstrap full pass and incremental assignment) and the         *)
(* template store with its version chain.                                  *)
(*                                                                         *)
(* A text is a sequence of one-character strings.  An optional column is   *)
(* a sequence of length 0 (NULL / None) or 1 (the value).                  *)
(***************************************************************************)
EXTENDS Integers, Sequences, FiniteSets, TLC

VARIABLES
    prompts,    \* table prompt_instances, rows in insertion order
    families,   \* table prompt_families, rows in insertion order
    templates,  \* table templates, rows in insertion order
    report,     \* what the last ingest command / worker tick reported
    cw,         \* classification worker: position inside run_cycle / FullClassifier.run
    tp,         \* template writers: per process, position inside update_family
    last,       \* the last completed template operation and its outcome
    iw,         \* ingestion worker: state file, HTTP client and position in its loop
    lineage     \* table lineage, rows in insertion order

vars == <<prompts, families, templates, report, cw, tp, last, iw, lineage>>

----------------------------------------------------------------------------
(* Bounds of the model *)

NumBits == 8          \* width of a SimHash fingerprint (num_bits, 64 in production)
MaxPrompts == 3       \* rows the prompt table may hold in the ingestion model
MaxBatch == 2         \* logs in one export / items in one ingested file

----------------------------------------------------------------------------
(* Optional values *)

None == <<>>
Some(v) == <<v>>
IsNone(o) == Len(o) = 0
Val(o) == o[1]

Range(s) == {s[i] : i \in 1..Len(s)}

RECURSIVE SumSeq(_)
SumSeq(s) == IF s = <<>> THEN 0 ELSE Head(s) + SumSeq(Tail(s))

----------------------------------------------------------------------------
(* packages/ingestion/normalizer.py *)

Lower(c) == CASE c = "A" -> "a" [] c = "B" -> "b" [] OTHER -> c
IsWordChar(c) == c \in {"a", "b", "c", "d", "A", "B", "_"}
IsSpaceChar(c) == c \in {" ", "\t"}

\* re.sub(r'\s+', ' ', text): every maximal run of whitespace becomes one space
RECURSIVE CollapseWs(_)
CollapseWs(s) ==
    IF s = <<>> THEN <<>>
    ELSE IF IsSpaceChar(Head(s))
         THEN IF Len(s) > 1 /\ IsSpaceChar(s[2])
              THEN CollapseWs(Tail(s))
              ELSE <<" ">> \o CollapseWs(Tail(s))
         ELSE <<Head(s)>> \o CollapseWs(Tail(s))

\* str.strip()
RECURSIVE LStrip(_)
LStrip(s) == IF s # <<>> /\ IsSpaceChar(Head(s)) THEN LStrip(Tail(s)) ELSE s

RECURSIVE RStrip(_)
RStrip(s) ==
    IF s # <<>> /\ IsSpaceChar(s[Len(s)]) THEN RStrip(SubSeq(s, 1, Len(s) - 1)) ELSE s

Strip(s) == RStrip(LStrip(s))

\* the steps in another order: strip, then remove punctuation, then collapse
normalize_text_strip_first(text) ==
    LET lowered == [i \in 1..Len(text) |-> Lower(text[i])]
        kept == SelectSeq(Strip(lowered), LAMBDA c : IsWordChar(c) \/ IsSpaceChar(c))
    IN CollapseWs(kept)

normalize_text(text) ==
    LET lowered == [i \in 1..Len(text) |-> Lower(text[i])]
        kept == SelectSeq(lowered, LAMBDA c : IsWordChar(c) \/ IsSpaceChar(c))
    IN Strip(CollapseWs(kept))

\* SHA-256 is modelled as collision free: the digest determines the text
compute_hash(text) == [sha256 |-> text]

----------------------------------------------------------------------------
(* packages/ingestion/dedup.py *)

\* str.split(): the maximal runs of non-whitespace
RECURSIVE SplitWs(_, _)
SplitWs(s, cur) ==
    IF s = <<>> THEN (IF cur = <<>> THEN <<>> ELSE <<cur>>)
    ELSE IF IsSpaceChar(Head(s))
         THEN (IF cur = <<>> THEN <<>> ELSE <<cur>>) \o SplitWs(Tail(s), <<>>)
         ELSE SplitWs(Tail(s), Append(cur, Head(s)))

Split(s) == SplitWs(s, <<>>)

Pow2(n) == 2 ^ n

\* int(md5(token).hexdigest(), 16) & ((1 << num_bits) - 1): a fixed value per token
TokenHash(token) ==
    (CASE token = <<"a">> -> 15
       [] token = <<"b">> -> 0
       [] token = <<"c">> -> 1
       [] token = <<"d">> -> 240
       [] OTHER -> 85) % Pow2(NumBits)

BitAt(h, i) == (h \div Pow2(i)) % 2

simhash(text) ==
    LET tokens == Split(text)
        vector == [i \in 0..(NumBits - 1) |->
                     SumSeq([k \in 1..Len(tokens) |->
                               IF BitAt(TokenHash(tokens[k]), i) = 1 THEN 1 ELSE -1])]
    IN IF tokens = <<>> THEN 0
       ELSE SumSeq([j \in 1..NumBits |-> IF vector[j - 1] > 0 THEN Pow2(j - 1) ELSE 0])

\* bin(a ^ b).count("1")
RECURSIVE hamming_distance(_, _)
hamming_distance(a, b) ==
    IF a = 0 /\ b = 0 THEN 0
    ELSE (IF a % 2 # b % 2 THEN 1 ELSE 0) + hamming_distance(a \div 2, b \div 2)

\* hex(n) and int(s, 16); a hex string is the sequence of its digits
RECURSIVE ToHex(_)
ToHex(n) == IF n < 16 THEN <<n>> ELSE Append(ToHex(n \div 16), n % 16)

RECURSIVE FromHex(_)
FromHex(s) == IF s = <<>> THEN 0 ELSE 16 * FromHex(SubSeq(s, 1, Len(s) - 1)) + s[Len(s)]

Threshold == 3

\* a scan that excludes the threshold itself
RECURSIVE is_near_duplicate_strict(_, _)
is_near_duplicate_strict(index, fp) ==
    IF index = <<>> THEN [dup |-> FALSE, id |-> None, distance |-> None]
    ELSE LET d == hamming_distance(fp, FromHex(Head(index).fp))
         IN IF d < Threshold
            THEN [dup |-> TRUE, id |-> Some(Head(index).id), distance |-> Some(d)]
            ELSE is_near_duplicate_strict(Tail(index), fp)

\* the scan of SimHashDeduplicator.is_near_duplicate and of the worker loop:
\* the first entry of the index, in insertion order, within the threshold
RECURSIVE is_near_duplicate(_, _)
is_near_duplicate(index, fp) ==
    IF index = <<>> THEN [dup |-> FALSE, id |-> None, distance |-> None]
    ELSE LET d == hamming_distance(fp, FromHex(Head(index).fp))
         IN IF d <= Threshold
            THEN [dup |-> TRUE, id |-> Some(Head(index).id), distance |-> Some(d)]
            ELSE is_near_duplicate(Tail(index), fp)

----------------------------------------------------------------------------
(* The prompt store: packages/storage/repositories.py, PromptRepository *)

\* ids: a Portkey log id, or "pg-" + the first 8 hex digits of the digest
LogId(k) == [kind |-> "log", log |-> k, text |-> <<>>]
\* the first eight hex digits of a text's digest: 32 bits, which two different
\* texts can share; here one pair of texts does
HashPrefix(text) == IF text = <<"d", "d">> THEN <<"d">> ELSE text

DnaId(text) == [kind |-> "pg", log |-> 0, text |-> HashPrefix(text)]

NoFamily == 0

get_by_id(store, prompt_id) ==
    SelectSeq(store, LAMBDA r : r.prompt_id = prompt_id)

\* a lookup that compares with the digest of the text as typed
get_by_hash_of_original(store, prompt_hash) ==
    SelectSeq(store, LAMBDA r : compute_hash(r.original_text) = prompt_hash)

get_by_hash(store, prompt_hash) ==
    SelectSeq(store, LAMBDA r : r.dedup_hash = prompt_hash)

\* an index that starts empty instead of being loaded from the table
get_all_simhashes_in_memory(store) == <<>>

\* rows with a non-NULL simhash, as (prompt_id, simhash) pairs in table order
get_all_simhashes(store) ==
    LET rows == SelectSeq(store, LAMBDA r : ~IsNone(r.simhash))
    IN [i \in 1..Len(rows) |-> [id |-> rows[i].prompt_id, fp |-> Val(rows[i].simhash)]]

create_from_instance(store, instance) ==
    IF get_by_id(store, instance.prompt_id) # <<>> THEN store
    ELSE Append(store,
           [prompt_id |-> instance.prompt_id,
            original_text |-> instance.original_text,
            normalized_text |-> IF instance.normalized_text # <<>>
                                THEN instance.normalized_text
                                ELSE [i \in 1..Len(Strip(instance.original_text)) |->
                                        Lower(Strip(instance.original_text)[i])],
            dedup_hash |-> instance.dedup_hash,
            simhash |-> instance.simhash,
            embedding_vector |-> None,
            family_id |-> NoFamily,
            is_template_seed |-> FALSE])

create_from_dna(store, dna, original_text_override) ==
    IF get_by_id(store, dna.id) # <<>> THEN store
    ELSE Append(store,
           [prompt_id |-> dna.id,
            original_text |-> original_text_override,
            normalized_text |-> normalize_text(dna.raw_text),
            dedup_hash |-> dna.hash,
            simhash |-> None,
            embedding_vector |-> Some(dna.embedding),
            family_id |-> NoFamily,
            is_template_seed |-> FALSE])

----------------------------------------------------------------------------
(* packages/ingestion/portkey.py *)

\* the user texts of the logs the export API can return, by log id
LogText(k) ==
    CASE k = 1 -> <<"a">>
      [] k = 2 -> <<"A", "!">>
      [] k = 3 -> <<"b">>
      [] k = 4 -> <<"c">>
      [] OTHER -> <<"!">>

NumLogs == 5
LogIds == 1..NumLogs

map_log_to_instance(k) ==
    LET user_text == LogText(k)
        normalized == normalize_text(user_text)
    IN [prompt_id |-> LogId(k),
        original_text |-> user_text,
        normalized_text |-> normalized,
        dedup_hash |-> compute_hash(normalized),
        simhash |-> IF normalized # <<>> THEN Some(ToHex(simhash(normalized))) ELSE None]

\* an export: a sequence of distinct logs
Batches ==
    {b \in UNION {[1..n -> LogIds] : n \in 0..MaxBatch} :
        \A i, j \in 1..Len(b) : i # j => b[i] # b[j]}

----------------------------------------------------------------------------
(* packages/ingestion/worker.py, run_worker: the dedup loop of one tick *)

\* state of the loop: the store, the in-memory index, the three counters and,
\* for every candidate that reaches step 2, the lookup made (is_near_dup,
\* matching_id, distance) together with the index it scanned
RECURSIVE DedupLoop(_, _)
DedupLoop(st, instances) ==
    IF instances = <<>> THEN st
    ELSE
      LET instance == Head(instances)
          rest == Tail(instances)
          hit == IF IsNone(instance.simhash)
                 THEN [dup |-> FALSE, id |-> None, distance |-> None]
                 ELSE is_near_duplicate(st.index, FromHex(Val(instance.simhash)))
          looked == IF IsNone(instance.simhash) THEN st
                    ELSE [st EXCEPT !.lookups =
                            Append(@, [fp |-> FromHex(Val(instance.simhash)),
                                       index |-> st.index,
                                       is_near_dup |-> hit.dup,
                                       matching_id |-> hit.id,
                                       distance |-> hit.distance])]
      IN IF instance.normalized_text = <<>> THEN DedupLoop(st, rest)
         ELSE IF get_by_hash(st.store, instance.dedup_hash) # <<>>
              THEN DedupLoop([st EXCEPT !.exact = @ + 1], rest)
         ELSE IF hit.dup
              THEN DedupLoop([looked EXCEPT !.near = @ + 1], rest)
         ELSE DedupLoop([looked EXCEPT
                           !.store = create_from_instance(@, instance),
                           !.index = IF IsNone(instance.simhash) THEN @
                                     ELSE IF \E i \in 1..Len(@) : @[i].id = instance.prompt_id
                                          THEN [i \in 1..Len(@) |->
                                                  IF @[i].id = instance.prompt_id
                                                  THEN [id |-> @[i].id, fp |-> Val(instance.simhash)]
                                                  ELSE @[i]]
                                          ELSE Append(@, [id |-> instance.prompt_id,
                                                          fp |-> Val(instance.simhash)]),
                           !.saved = @ + 1], rest)

\* the orders in which the unordered SELECT of get_all_simhashes may return rows
Orderings(s) ==
    {[i \in 1..Len(s) |-> s[p[i]]] :
        p \in {q \in [1..Len(s) -> 1..Len(s)] : \A i, j \in 1..Len(s) : i # j => q[i] # q[j]}}

\* run_worker before its loop: PortKeyIngestor(api_key) has opened the HTTP
\* client and no tick has run; the state file does not exist
IngestLoopStart ==
    [pc |-> "tick",             \* tick: at the top of the loop; sleep: in asyncio.sleep
     state_file |-> None,       \* last_run_time in ingestion_state.json, if the file exists
     now |-> 0,                 \* datetime.utcnow(), in sleep intervals
     time_min |-> None,         \* the time_min of the last tick
     client_closed |-> FALSE,   \* ingestor.client has been closed
     api |-> "none",            \* none, ok, failed, unreached: the export API in the last tick
     outcome |-> "none"]        \* none, ok, failed: how the last tick ended

NoReport == [op |-> "none", batch |-> <<>>, saved |-> 0, exact |-> 0, near |-> 0,
             duplicates |-> 0, errors |-> 0, lookups |-> <<>>]

IngestTick(batch, loaded) ==
    LET instances == [i \in 1..Len(batch) |-> map_log_to_instance(batch[i])]
        st0 == [store |-> prompts, index |-> loaded, saved |-> 0, exact |-> 0, near |-> 0,
                lookups |-> <<>>]
        st == IF instances # <<>> THEN DedupLoop(st0, instances) ELSE st0
    IN /\ Len(prompts) + Len(batch) <= MaxPrompts
       /\ prompts' = st.store
       /\ report' = [NoReport EXCEPT !.op = "tick", !.batch = batch, !.saved = st.saved,
                       !.exact = st.exact, !.near = st.near, !.lookups = st.lookups]
       /\ UNCHANGED <<families, templates, cw, tp, last, lineage>>

----------------------------------------------------------------------------
(* The embedding model and cosine similarity (external components) *)

\* embed(text): one fixed vector per text
embed(text) ==
    CASE text = <<"a">> -> <<1, 0>>
      [] text = <<"b">> -> <<0, 1>>
      [] text = <<"c">> -> <<1, 1>>
      [] text = <<"d">> -> <<4, 3>>
      [] OTHER -> <<3, 4>>

Dot(u, v) == SumSeq([i \in 1..Len(u) |-> u[i] * v[i]])

ISqrt(x) == CHOOSE r \in 0..x : r * r <= x /\ (r + 1) * (r + 1) > x

\* sklearn cosine_similarity, in thousandths; a zero vector has similarity 0
cosine_similarity(u, v) ==
    IF Dot(u, u) = 0 \/ Dot(v, v) = 0 THEN 0
    ELSE (1000 * Dot(u, v)) \div ISqrt(Dot(u, u) * Dot(v, v))

----------------------------------------------------------------------------
(* packages/core/processing.py and packages/clustering/evolution.py *)

extract_dna(raw_text) ==
    [id |-> DnaId(raw_text), raw_text |-> raw_text, hash |-> compute_hash(raw_text),
     embedding |-> <<>>]

get_by_family(store, family_id) ==
    SelectSeq(store, LAMBDA r : r.family_id = family_id)

\* members' embeddings that are neither NULL nor empty
FamilyEmbeddings(store, family_id) ==
    LET ms == SelectSeq(get_by_family(store, family_id),
                        LAMBDA r : ~IsNone(r.embedding_vector) /\ Val(r.embedding_vector) # <<>>)
    IN [i \in 1..Len(ms) |-> Val(ms[i].embedding_vector)]

\* mean cosine similarity to the members, in thousandths
compute_confidence(embedding, family_embeddings) ==
    IF embedding = <<>> \/ family_embeddings = <<>> THEN 0
    ELSE SumSeq([i \in 1..Len(family_embeddings) |->
                   cosine_similarity(embedding, family_embeddings[i])])
         \div Len(family_embeddings)

AutoMerge == 850
SuggestMerge == 700

RECURSIVE BestFamily(_, _, _, _)
BestFamily(fams, store, embedding, best) ==
    IF fams = <<>> THEN best
    ELSE LET fe == FamilyEmbeddings(store, Head(fams).family_id)
             c == compute_confidence(embedding, fe)
         IN IF fe # <<>> /\ c > best.confidence
            THEN BestFamily(Tail(fams), store, embedding,
                            [family_id |-> Head(fams).family_id, confidence |-> c])
            ELSE BestFamily(Tail(fams), store, embedding, best)

classify_new_prompt(embedding, fams, store) ==
    LET best == BestFamily(fams, store, embedding, [family_id |-> NoFamily, confidence |-> 0])
    IN IF fams = <<>> \/ embedding = <<>>
       THEN [classification |-> "new_family", family_id |-> NoFamily]
       ELSE IF best.confidence >= AutoMerge
            THEN [classification |-> "exact_match", family_id |-> best.family_id]
       ELSE IF best.confidence >= SuggestMerge
            THEN [classification |-> "variant", family_id |-> best.family_id]
       ELSE [classification |-> "new_family", family_id |-> NoFamily]

update_family(store, prompt_id, family_id) ==
    [i \in 1..Len(store) |->
        IF store[i].prompt_id = prompt_id THEN [store[i] EXCEPT !.family_id = family_id]
        ELSE store[i]]

\* LineageRepository.create_lineage
create_lineage(lin, parent_prompt_id, child_prompt_id) ==
    Append(lin, [parent_prompt_id |-> parent_prompt_id, child_prompt_id |-> child_prompt_id])

\* the member most similar to the prompt, the prompt itself left out; the first
\* of equally similar members is kept
RECURSIVE BestParent(_, _, _)
BestParent(members, dna, best) ==
    IF members = <<>> THEN best
    ELSE LET member == Head(members)
             member_embedding == IF IsNone(member.embedding_vector) THEN <<>>
                                 ELSE Val(member.embedding_vector)
             member_confidence == IF dna.embedding # <<>> /\ member_embedding # <<>>
                                  THEN compute_confidence(dna.embedding, <<member_embedding>>)
                                  ELSE 0
         IN IF member.prompt_id = dna.id THEN BestParent(Tail(members), dna, best)
            ELSE IF member_confidence > best.confidence
                 THEN BestParent(Tail(members), dna,
                                 [parent |-> Some(member.prompt_id),
                                  confidence |-> member_confidence])
            ELSE BestParent(Tail(members), dna, best)

\* ProcessingService.classify_new_prompt: the classification, and the lineage
\* table with the link to the best parent when the prompt joins a family
ClassifyWithLineage(dna, fams, store, lin) ==
    LET c == classify_new_prompt(dna.embedding, fams, store)
        best == BestParent(get_by_family(store, c.family_id), dna,
                           [parent |-> None, confidence |-> 0])
    IN IF fams = <<>>
       THEN [classification |-> "new_family", family_id |-> NoFamily, lineage |-> lin]
       ELSE IF c.classification \in {"exact_match", "variant"} /\ c.family_id # NoFamily
               /\ ~IsNone(best.parent)
       THEN [classification |-> c.classification, family_id |-> c.family_id,
             lineage |-> create_lineage(lin, Val(best.parent), dna.id)]
       ELSE [classification |-> c.classification, family_id |-> c.family_id,
             lineage |-> lin]

\* ProcessingService.process_raw_prompt; embedOk: the embedding service answers.
\* The result says whether the call raised and what the tables hold afterwards.
process_raw_prompt(store, fams, lin, raw_text, embedOk) ==
    LET normalized == normalize_text(raw_text)
        prompt_hash == compute_hash(normalized)
        prompt_dna == [extract_dna(normalized) EXCEPT !.embedding = embed(normalized)]
        saved == create_from_dna(store, prompt_dna, raw_text)
        c == ClassifyWithLineage(prompt_dna, fams, saved, lin)
    IN IF get_by_hash(store, prompt_hash) # <<>>
       THEN [raised |-> FALSE, store |-> store, lineage |-> lin]
       ELSE IF ~embedOk THEN [raised |-> TRUE, store |-> store, lineage |-> lin]
       ELSE IF c.classification \in {"exact_match", "variant"} /\ c.family_id # NoFamily
            THEN [raised |-> FALSE, lineage |-> c.lineage,
                  store |-> update_family(saved, prompt_dna.id, c.family_id)]
       ELSE [raised |-> FALSE, store |-> saved, lineage |-> c.lineage]

----------------------------------------------------------------------------
(* apps/cli/main.py: add, ingest *)

\* texts a user may type or a file may hold
RawTexts == {<<"a">>, <<"A", "!">>, <<"c">>}

Add(text, embedOk, cap) ==
    LET r == process_raw_prompt(prompts, families, lineage, text, embedOk)
    IN /\ Len(prompts) < cap
       /\ prompts' = r.store
       /\ lineage' = r.lineage
       /\ report' = [NoReport EXCEPT !.op = "add", !.batch = <<text>>,
                       !.errors = IF r.raised THEN 1 ELSE 0]
       /\ UNCHANGED <<families, templates, cw, tp, last, iw>>

\* the loop of ingest --source=file over the items of the file
RECURSIVE IngestFileLoop(_, _, _)
IngestFileLoop(st, items, embedOk) ==
    IF items = <<>> THEN st
    ELSE LET after(cur, r) ==
                 IF r.raised
                 THEN [cur EXCEPT !.errors = @ + 1]
                 ELSE [cur EXCEPT !.store = r.store, !.lineage = r.lineage, !.saved = @ + 1]
         IN CHOOSE out \in
               {IngestFileLoop(next, Tail(items), Tail(embedOk)) :
                  next \in {after(st, r) :
                               r \in {process_raw_prompt(st.store, families, st.lineage,
                                                         Head(items), Head(embedOk))}}} : TRUE

Files == UNION {[1..n -> RawTexts] : n \in 1..MaxBatch}

IngestFile(items, embedOk) ==
    LET st == IngestFileLoop([store |-> prompts, lineage |-> lineage, saved |-> 0,
                              duplicates |-> 0, errors |-> 0],
                             items, embedOk)
    IN /\ Len(prompts) + Len(items) <= MaxPrompts
       /\ prompts' = st.store
       /\ lineage' = st.lineage
       /\ report' = [NoReport EXCEPT !.op = "ingest_file", !.batch = items,
                       !.saved = st.saved, !.duplicates = st.duplicates, !.errors = st.errors]
       /\ UNCHANGED <<families, templates, cw, tp, last, iw>>

\* the loop of ingest --source=portkey: every instance goes to create_from_instance
RECURSIVE IngestPortkeyLoop(_, _)
IngestPortkeyLoop(st, instances) ==
    IF instances = <<>> THEN st
    ELSE IngestPortkeyLoop([st EXCEPT !.store = create_from_instance(@, Head(instances)),
                                      !.saved = @ + 1], Tail(instances))

IngestPortkey(batch) ==
    LET instances == [i \in 1..Len(batch) |-> map_log_to_instance(batch[i])]
        st == IngestPortkeyLoop([store |-> prompts, saved |-> 0, duplicates |-> 0], instances)
    IN /\ Len(prompts) + Len(batch) <= MaxPrompts
       /\ prompts' = st.store
       /\ report' = [NoReport EXCEPT !.op = "ingest_portkey", !.batch = batch,
                       !.saved = st.saved, !.duplicates = st.duplicates]
       /\ UNCHANGED <<families, templates, cw, tp, last, iw, lineage>>

----------------------------------------------------------------------------
(* The ingestion model: the ingestion worker and the one-shot commands *)

NoLast == [op |-> "none"]

InitIngest ==
    /\ prompts = <<>>
    /\ families = <<>>
    /\ templates = <<>>
    /\ report = NoReport
    /\ cw = [pc |-> "idle"]
    /\ tp = <<>>
    /\ last = NoLast
    /\ iw = IngestLoopStart
    /\ lineage = <<>>

IngestWorkerTick ==
    /\ \E batch \in Batches : \E loaded \in Orderings(get_all_simhashes(prompts)) :
          IngestTick(batch, loaded)
    /\ UNCHANGED iw

AddCommand == \E text \in RawTexts, embedOk \in BOOLEAN : Add(text, embedOk, MaxPrompts)

IngestFileCommand ==
    \E items \in Files : \E embedOk \in [1..Len(items) -> BOOLEAN] : IngestFile(items, embedOk)

IngestPortkeyCommand == \E batch \in Batches : IngestPortkey(batch)

NextIngest == IngestWorkerTick \/ AddCommand \/ IngestFileCommand \/ IngestPortkeyCommand

SpecIngest == InitIngest /\ [][NextIngest]_vars

----------------------------------------------------------------------------
(* Properties of ingestion *)

\* C1: after any sequence of ingest operations on any entry point, no two
\* stored prompts have the same dedup_hash.
C1_UniqueDedupHash ==
    \A i, j \in 1..Len(prompts) :
        i # j => prompts[i].dedup_hash # prompts[j].dedup_hash

\* what the three-way decision of a tick must be, stated per candidate
C2_Cand(batch, i) == map_log_to_instance(batch[i])
C2_NonEmpty(batch, i) == C2_Cand(batch, i).normalized_text # <<>>
C2_Fp(batch, i) == simhash(C2_Cand(batch, i).normalized_text)

RECURSIVE C2_Kept(_, _, _)
C2_Kept(store, batch, i) ==
    LET earlier == {j \in 1..(i - 1) : C2_Kept(store, batch, j)}
    IN /\ C2_NonEmpty(batch, i)
       /\ \A r \in Range(store) : r.dedup_hash # C2_Cand(batch, i).dedup_hash
       /\ \A j \in earlier : C2_Cand(batch, j).dedup_hash # C2_Cand(batch, i).dedup_hash
       /\ \A r \in Range(store) :
             ~IsNone(r.simhash) =>
                 hamming_distance(FromHex(Val(r.simhash)), C2_Fp(batch, i)) > Threshold
       /\ \A j \in earlier : hamming_distance(C2_Fp(batch, j), C2_Fp(batch, i)) > Threshold

C2_Exact(store, batch, i) ==
    /\ C2_NonEmpty(batch, i)
    /\ \/ \E r \in Range(store) : r.dedup_hash = C2_Cand(batch, i).dedup_hash
       \/ \E j \in 1..(i - 1) :
             C2_Kept(store, batch, j)
             /\ C2_Cand(batch, j).dedup_hash = C2_Cand(batch, i).dedup_hash

C2_Near(store, batch, i) ==
    C2_NonEmpty(batch, i) /\ ~C2_Exact(store, batch, i) /\ ~C2_Kept(store, batch, i)

C2_KeptIds(store, batch) ==
    LET idx == SelectSeq([i \in 1..Len(batch) |-> i], LAMBDA i : C2_Kept(store, batch, i))
    IN [k \in 1..Len(idx) |-> LogId(batch[idx[k]])]

\* C2: in an ingestion-worker tick every non-empty candidate is an exact
\* duplicate (a stored prompt has its dedup_hash; not stored), else a near
\* duplicate (a fingerprint of the store or of an earlier kept candidate of the
\* batch is within the threshold; not stored), else it is stored; the three
\* counters add up to the number of non-empty candidates.
C2_TickDecision ==
    [][report'.op = "tick" =>
        LET batch == report'.batch
            n == Len(batch)
        IN /\ report'.exact = Cardinality({i \in 1..n : C2_Exact(prompts, batch, i)})
           /\ report'.near = Cardinality({i \in 1..n : C2_Near(prompts, batch, i)})
           /\ report'.saved = Cardinality({i \in 1..n : C2_Kept(prompts, batch, i)})
           /\ report'.saved + report'.exact + report'.near
                = Cardinality({i \in 1..n : C2_NonEmpty(batch, i)})
           /\ Len(prompts') = Len(prompts) + report'.saved
           /\ SubSeq(prompts', 1, Len(prompts)) = prompts
           /\ [k \in 1..report'.saved |-> prompts'[Len(prompts) + k].prompt_id]
                = C2_KeptIds(prompts, batch)
           /\ \A k \in (Len(prompts) + 1)..Len(prompts') :
                 prompts'[k].simhash = Some(ToHex(simhash(prompts'[k].normalized_text)))
    ]_vars

\* a tick that saved one candidate and dropped the next as a near duplicate of it
C2_Witness ==
    /\ report.op = "tick"
    /\ report.saved = 1
    /\ report.near = 1
    /\ Len(report.lookups) = 2
    /\ report.lookups[2].index # <<>>
    /\ report.lookups[2].index[Len(report.lookups[2].index)].fp = ToHex(report.lookups[1].fp)

\* C3: ingesting the same text twice through the ingest command leaves one
\* stored prompt and reports saved=1, duplicates=1: saved counts the rows
\* added, a candidate rejected as duplicate counts as a duplicate.
C3_SameTextTwice ==
    [][(/\ report'.op = "ingest_file"
        /\ report'.errors = 0
        /\ Len(report'.batch) = 2
        /\ report'.batch[1] = report'.batch[2]
        /\ prompts = <<>>)
       => (/\ Len(prompts') = 1
           /\ report'.saved = 1
           /\ report'.duplicates = 1)
    ]_vars

\* C4: the add / ingest-file path decides as the ingestion worker does: a
\* candidate within the Hamming threshold of a stored fingerprint is dropped,
\* and a prompt kept by this path has its SimHash stored.
C4_AddDecidesAsWorker ==
    [][(report'.op = "add" /\ report'.errors = 0) =>
        LET normalized == normalize_text(report'.batch[1])
            exact == \E r \in Range(prompts) : r.dedup_hash = compute_hash(normalized)
            near == \E r \in Range(prompts) :
                       /\ ~IsNone(r.simhash)
                       /\ hamming_distance(FromHex(Val(r.simhash)), simhash(normalized))
                            <= Threshold
        IN /\ (Len(prompts') = Len(prompts) + 1) <=> (~exact /\ ~near)
           /\ Len(prompts') = Len(prompts) + 1 =>
                 prompts'[Len(prompts')].simhash = Some(ToHex(simhash(normalized)))
    ]_vars

C5_Within(l) ==
    {i \in 1..Len(l.index) : hamming_distance(l.fp, FromHex(l.index[i].fp)) <= Threshold}

\* C5 as stated: the near-hit lookup returns an indexed prompt of smallest
\* Hamming distance among those within the threshold, with that distance, and
\* no match iff no indexed fingerprint is within the threshold.
C5_NearestMatch ==
    \A k \in 1..Len(report.lookups) :
        LET l == report.lookups[k]
        IN /\ l.is_near_dup <=> C5_Within(l) # {}
           /\ l.is_near_dup =>
                 /\ \E i \in C5_Within(l) :
                       /\ l.index[i].id = Val(l.matching_id)
                       /\ hamming_distance(l.fp, FromHex(l.index[i].fp)) = Val(l.distance)
                 /\ \A i \in C5_Within(l) :
                       Val(l.distance) <= hamming_distance(l.fp, FromHex(l.index[i].fp))

\* C5 amended: the lookup returns the first indexed prompt, in index order,
\* that is within the threshold, with its own distance (at most the threshold,
\* not necessarily the minimum); no match iff no indexed fingerprint is within
\* the threshold.
C5_FirstMatch ==
    \A k \in 1..Len(report.lookups) :
        LET l == report.lookups[k]
        IN /\ l.is_near_dup <=> C5_Within(l) # {}
           /\ l.is_near_dup =>
                 \E i \in C5_Within(l) :
                     /\ \A j \in C5_Within(l) : i <= j
                     /\ l.index[i].id = Val(l.matching_id)
                     /\ hamming_distance(l.fp, FromHex(l.index[i].fp)) = Val(l.distance)
                     /\ Val(l.distance) <= Threshold

\* a lookup that matched although a later index entry is strictly nearer
C5_Witness ==
    \E k \in 1..Len(report.lookups) :
        LET l == report.lookups[k]
        IN /\ l.is_near_dup
           /\ \E i \in C5_Within(l) :
                 hamming_distance(l.fp, FromHex(l.index[i].fp)) < Val(l.distance)

----------------------------------------------------------------------------
(* Bounds of the classification model *)

BOOTSTRAP_THRESHOLD == 2   \* classified prompts below which a tick bootstraps (50 in the code)
batch_size == 2            \* IncrementalWorker.batch_size (500 in the code)
MaxCorpus == 5             \* prompts the store may hold in the classification model
NumLLMNames == 1           \* distinct names the naming LLM may answer with
MaxTicks == 2              \* ticks of the classification worker in one run of the model

----------------------------------------------------------------------------
(* packages/storage/repositories.py: prompts and families of the classifier *)

\* a truthy embedding: neither NULL nor the empty list
HasEmbedding(r) == ~IsNone(r.embedding_vector) /\ Val(r.embedding_vector) # <<>>

\* a count of the prompts that have an embedding, whatever their family
get_classified_count_embedded(store) ==
    Len(SelectSeq(store, LAMBDA r : HasEmbedding(r)))

get_classified_count(store) ==
    Len(SelectSeq(store, LAMBDA r : r.family_id # NoFamily))

get_pending_count(store) ==
    Len(SelectSeq(store, LAMBDA r : r.family_id = NoFamily))

\* the rows get_pending selects: embedding_vector IS NULL
PendingRows(store) == SelectSeq(store, LAMBDA r : IsNone(r.embedding_vector))

\* SELECT ... LIMIT n without ORDER BY: any n of the selected rows, in any order
get_pending(store, limit) ==
    LET rows == PendingRows(store)
        n == IF Len(rows) < limit THEN Len(rows) ELSE limit
    IN {[i \in 1..n |-> rows[q[i]].prompt_id] :
          q \in {f \in [1..n -> 1..Len(rows)] : \A i, j \in 1..n : i # j => f[i] # f[j]}}

update_embedding(store, prompt_id, embedding) ==
    [i \in 1..Len(store) |->
        IF store[i].prompt_id = prompt_id
        THEN [store[i] EXCEPT !.embedding_vector = Some(embedding)]
        ELSE store[i]]

update_embedding_and_family(store, prompt_id, embedding, family_id) ==
    [i \in 1..Len(store) |->
        IF store[i].prompt_id = prompt_id
        THEN [store[i] EXCEPT !.embedding_vector = Some(embedding), !.family_id = family_id]
        ELSE store[i]]

\* a centroid is the mean of its members' vectors, held exactly as their sum
\* over their number
Zero2 == <<0, 0>>
VecAdd(u, v) == [i \in 1..Len(u) |-> u[i] + v[i]]

RECURSIVE VecSum(_)
VecSum(vs) == IF vs = <<>> THEN Zero2 ELSE VecAdd(Head(vs), VecSum(Tail(vs)))

\* families with a non-NULL centroid, as (family_id, centroid) pairs
get_all_centroids(fams) ==
    LET rows == SelectSeq(fams, LAMBDA f : ~IsNone(f.centroid_vector))
    IN [i \in 1..Len(rows) |->
          [family_id |-> rows[i].family_id, centroid |-> Val(rows[i].centroid_vector)]]

ClusterName(cluster_id) == [kind |-> "cluster", n |-> cluster_id]
LLMName(j) == [kind |-> "llm", n |-> j]

\* result: the family table and the id of the created or updated family
create_or_update_family(fams, cluster_id, centroid, member_count, family_name) ==
    LET existing == SelectSeq(fams, LAMBDA f : f.family_name = family_name)
        fid == Len(fams) + 1
    IN IF existing # <<>>
       THEN [families |->
               [i \in 1..Len(fams) |->
                  IF fams[i].family_id = existing[1].family_id
                  THEN [fams[i] EXCEPT !.centroid_vector = centroid,
                                       !.member_count = member_count,
                                       !.version = @ + 1]
                  ELSE fams[i]],
             family_id |-> existing[1].family_id]
       ELSE [families |->
               Append(fams, [family_id |-> fid,
                             family_name |-> family_name,
                             centroid_vector |-> centroid,
                             member_count |-> member_count,
                             version |-> 1,
                             member_count_at_last_template |-> 0,
                             needs_template_update |-> TRUE]),
             family_id |-> fid]

\* a tick that leaves the stored counts as they are
update_all_member_counts_skipped(fams, store) == fams

update_all_member_counts(fams, store) ==
    [i \in 1..Len(fams) |->
        [fams[i] EXCEPT !.member_count = Len(get_by_family(store, fams[i].family_id))]]

----------------------------------------------------------------------------
(* packages/storage/repositories.py and packages/ml_core/template_generator.py: *)
(* templates as the classification worker's template hook sees them             *)

NoTemplate == 0

\* TemplateRepository.get_by_family: the newest template row of the family
newest_template(tmpls, family_id) ==
    LET rows == SelectSeq(tmpls, LAMBDA t : t.family_id = family_id)
    IN IF rows = <<>> THEN None ELSE Some(rows[Len(rows)])

\* time is measured in prompts inserted: a prompt row was created after the
\* moment `since` iff its position in the table is beyond `since`
count_new_members_since(store, family_id, since) ==
    Cardinality({i \in 1..Len(store) : i > since /\ store[i].family_id = family_id})

NewMemberDelta == 1     \* new members that make the sweep re-extract (5 in the code)
MinMembersNew == 2      \* a family without template gets one above this count

\* TemplateGenerator.process_family.  The result says whether an extraction
\* was attempted, whether it was an update, and whether the call raised:
\* FamilyRepository.create_template passes template_version to a model that
\* has no such column (TypeError), TemplateRepository.update_template reads
\* template.template_version (AttributeError); both leave before db.commit().
process_family(fams, tmpls, store, family_id, force) ==
    LET fam == SelectSeq(fams, LAMBDA f : f.family_id = family_id)
        template == newest_template(tmpls, family_id)
        wants_new == IsNone(template) /\ fam[1].member_count > MinMembersNew
        wants_update == ~IsNone(template)
                        /\ count_new_members_since(store, family_id, Val(template).created_at)
                             >= NewMemberDelta
        should_generate == force \/ wants_new \/ wants_update
        is_update == IF force THEN ~IsNone(template) ELSE wants_update
        members == get_by_family(store, family_id)
    IN IF fam = <<>> \/ ~should_generate \/ members = <<>>
       THEN [attempted |-> FALSE, is_update |-> FALSE, raised |-> FALSE]
       ELSE [attempted |-> TRUE, is_update |-> is_update, raised |-> TRUE]

\* TemplateGenerator.process_all_families: the first call that raises ends the sweep
RECURSIVE process_all_families(_, _, _, _, _)
process_all_families(todo, fams, tmpls, store, force) ==
    IF todo = <<>> THEN [raised |-> FALSE, family_id |-> NoFamily, is_update |-> FALSE]
    ELSE LET r == process_family(fams, tmpls, store, Head(todo).family_id, force)
         IN IF r.raised
            THEN [raised |-> TRUE, family_id |-> Head(todo).family_id, is_update |-> r.is_update]
            ELSE process_all_families(Tail(todo), fams, tmpls, store, force)

----------------------------------------------------------------------------
(* packages/ml_core/clustering.py *)

min_cluster_size == 2

\* cluster_hdbscan: HDBSCAN is an external library.  Its answer is any
\* labelling (-1 is noise) with labels 0..k-1, every cluster of at least
\* min_cluster_size points, and equal vectors labelled alike.
Clusterings(ids, store) ==
    LET n == Len(ids)
        vec(i) == Val(get_by_id(store, ids[i])[1].embedding_vector)
        maxk == n \div min_cluster_size
    IN IF n < 2 THEN {<<>>}
       ELSE {l \in [1..n -> (-1)..(maxk - 1)] :
               /\ \A c \in 0..(maxk - 1) :
                     LET size == Cardinality({i \in 1..n : l[i] = c})
                     IN /\ size = 0 \/ size >= min_cluster_size
                        /\ (size > 0 /\ c > 0) => \E i \in 1..n : l[i] = c - 1
               /\ \A i, j \in 1..n : vec(i) = vec(j) => l[i] = l[j]}

\* cluster_to_prompts: the clusters in order of first appearance
RECURSIVE ClusterOrder(_, _)
ClusterOrder(labels, seen) ==
    IF labels = <<>> THEN <<>>
    ELSE IF Head(labels) = -1 \/ Head(labels) \in seen THEN ClusterOrder(Tail(labels), seen)
    ELSE <<Head(labels)>> \o ClusterOrder(Tail(labels), seen \cup {Head(labels)})

ClusterMembers(ids, labels, c) ==
    LET idx == SelectSeq([i \in 1..Len(ids) |-> i], LAMBDA i : labels[i] = c)
    IN [k \in 1..Len(idx) |-> ids[idx[k]]]

\* compute_cluster_centroids, for one cluster
compute_cluster_centroid(store, member_ids) ==
    [sum |-> VecSum([k \in 1..Len(member_ids) |->
                        Val(get_by_id(store, member_ids[k])[1].embedding_vector)]),
     n |-> Len(member_ids)]

\* generate_family_name: the fallback name or whatever the LLM answers
FamilyNames(cluster_id) == {ClusterName(cluster_id)} \cup {LLMName(j) : j \in 1..NumLLMNames}

----------------------------------------------------------------------------
(* packages/ml_core/incremental_worker.py *)

similarity_threshold == 600     \* 0.60, in thousandths

RECURSIVE NearestLoop(_, _, _)
NearestLoop(embedding, centroids, best) ==
    IF centroids = <<>> THEN best
    ELSE LET similarity == cosine_similarity(embedding, Head(centroids).centroid.sum)
         IN IF similarity > best.similarity
            THEN NearestLoop(embedding, Tail(centroids),
                             [family_id |-> Head(centroids).family_id, similarity |-> similarity])
            ELSE NearestLoop(embedding, Tail(centroids), best)

\* the first family of the table whose centroid reaches the threshold
find_nearest_family_first_fit(embedding, centroids) ==
    LET fits == SelectSeq(centroids,
                          LAMBDA c : cosine_similarity(embedding, c.centroid.sum)
                                        >= similarity_threshold)
    IN IF fits = <<>> THEN [family_id |-> NoFamily, similarity |-> 0]
       ELSE [family_id |-> fits[1].family_id,
             similarity |-> cosine_similarity(embedding, fits[1].centroid.sum)]

find_nearest_family(embedding, centroids) ==
    LET best == NearestLoop(embedding, centroids, [family_id |-> NoFamily, similarity |-> -1000])
    IN IF centroids = <<>> THEN [family_id |-> NoFamily, similarity |-> 0]
       ELSE IF best.similarity >= similarity_threshold THEN best
       ELSE [family_id |-> NoFamily, similarity |-> best.similarity]

----------------------------------------------------------------------------
(* The classification worker: IncrementalWorker.run_cycle and, inside it,   *)
(* FullClassifier.run.  Every repository call commits on its own, so a tick *)
(* is a sequence of steps, one per commit.                                  *)

IdleWorker ==
    [pc |-> "idle",          \* idle, full_embed, full_families, full_assign, inc_assign
     mode |-> "none",        \* the path the last started tick took
     outcome |-> "none",     \* running, done, skipped, failed, stopped
     classified |-> 0,       \* get_classified_count() at tick start
     pending_count |-> 0,    \* get_pending_count() at tick start (incremental)
     ids |-> <<>>,           \* full pass: the prompts with a text, as loaded
     batch |-> <<>>,         \* incremental: the prompts fetched
     queue |-> <<>>,         \* what the current loop still has to visit
     labels |-> <<>>,        \* full pass: the label of every prompt of ids
     c2f |-> <<>>,           \* full pass: cluster_id_to_family_id, by cluster id + 1
     embedded |-> {},        \* prompts whose embedding this tick has committed
     decided |-> {},         \* prompts whose family decision this tick has committed
     assigned |-> 0,         \* stats["assigned"]
     tick |-> 0]             \* ticks started so far

Truthy(text) == text # <<>>

\* the tick is over: its local variables are gone, what it did stays on record
EndTick(w, outcome) ==
    [w EXCEPT !.pc = "idle", !.outcome = outcome, !.ids = <<>>, !.queue = <<>>,
              !.labels = <<>>, !.c2f = <<>>]

\* FullClassifier.run up to and including create_embeddings()
StartFullPass(classified, embedOk) ==
    LET with_text == SelectSeq(prompts, LAMBDA r : Truthy(r.normalized_text))
        to_embed == SelectSeq(with_text, LAMBDA r : ~HasEmbedding(r))
        started == [IdleWorker EXCEPT !.mode = "full", !.classified = classified,
                                      !.tick = cw.tick + 1]
    IN IF Len(prompts) < 2
       THEN [started EXCEPT !.outcome = "done"]
       ELSE IF to_embed # <<>> /\ ~embedOk
       THEN [started EXCEPT !.outcome = "failed"]
       ELSE [started EXCEPT !.pc = "full_embed", !.outcome = "running",
                            !.ids = [i \in 1..Len(with_text) |-> with_text[i].prompt_id],
                            !.queue = [i \in 1..Len(to_embed) |-> to_embed[i].prompt_id]]

\* run_cycle after the bootstrap check, up to the per-prompt loop
StartIncremental(classified, batch) ==
    LET pending_count == get_pending_count(prompts)
        started == [IdleWorker EXCEPT !.mode = "incremental", !.classified = classified,
                                      !.pending_count = pending_count,
                                      !.tick = cw.tick + 1]
    IN IF pending_count < batch_size
       THEN [started EXCEPT !.outcome = "skipped"]
       ELSE IF get_all_centroids(families) = <<>>
       THEN [started EXCEPT !.outcome = "done", !.batch = batch]
       ELSE [started EXCEPT !.pc = "inc_assign", !.outcome = "running",
                            !.batch = batch, !.queue = batch]

ClassifyTickStart ==
    /\ cw.pc = "idle"
    /\ cw.tick < MaxTicks
    /\ LET classified == get_classified_count(prompts)
       IN IF classified < BOOTSTRAP_THRESHOLD
          THEN \E embedOk \in BOOLEAN : cw' = StartFullPass(classified, embedOk)
          ELSE \E batch \in get_pending(prompts, batch_size) :
                  cw' = StartIncremental(classified, batch)
    /\ UNCHANGED <<prompts, families, templates, report, tp, last, iw, lineage>>

\* full pass, step 3: prompt_repo.update_embedding for one prompt
FullEmbedStep ==
    /\ cw.pc = "full_embed"
    /\ cw.queue # <<>>
    /\ LET pid == Head(cw.queue)
           row == get_by_id(prompts, pid)[1]
       IN /\ prompts' = update_embedding(prompts, pid, embed(row.normalized_text))
          /\ cw' = [cw EXCEPT !.queue = Tail(@), !.embedded = @ \cup {pid}]
    /\ UNCHANGED <<families, templates, report, tp, last, iw, lineage>>

\* where the full pass goes once the clusters still to be stored are `clusters`
AfterClustering(w, clusters) ==
    IF clusters # <<>> THEN [w EXCEPT !.pc = "full_families", !.queue = clusters]
    ELSE [w EXCEPT !.pc = "full_assign", !.queue = [i \in 1..Len(w.labels) |-> i]]

\* full pass, steps 4 and 5: cluster_hdbscan over all embeddings
FullCluster ==
    /\ cw.pc = "full_embed"
    /\ cw.queue = <<>>
    /\ \E labels \in Clusterings(cw.ids, prompts) :
          cw' = AfterClustering([cw EXCEPT !.labels = labels,
                                           !.c2f = [c \in 1..(Len(cw.ids) \div min_cluster_size)
                                                      |-> NoFamily]],
                                ClusterOrder(labels, {}))
    /\ UNCHANGED <<prompts, families, templates, report, tp, last, iw, lineage>>

\* full pass, step 6: create_or_update_family for one cluster
FullFamilyStep ==
    /\ cw.pc = "full_families"
    /\ cw.queue # <<>>
    /\ \E family_name \in FamilyNames(Head(cw.queue)) :
          LET cluster_id == Head(cw.queue)
              member_ids == ClusterMembers(cw.ids, cw.labels, cluster_id)
              r == create_or_update_family(families, cluster_id,
                                           Some(compute_cluster_centroid(prompts, member_ids)),
                                           Len(member_ids), family_name)
          IN /\ families' = r.families
             /\ cw' = AfterClustering([cw EXCEPT !.c2f[cluster_id + 1] = r.family_id],
                                      Tail(cw.queue))
    /\ UNCHANGED <<prompts, templates, report, tp, last, iw, lineage>>

\* full pass, step 7: prompt_repo.update_family for one prompt
FullAssignStep ==
    /\ cw.pc = "full_assign"
    /\ cw.queue # <<>>
    /\ LET i == Head(cw.queue)
           pid == cw.ids[i]
           family_id == IF cw.labels[i] = -1 THEN NoFamily ELSE cw.c2f[cw.labels[i] + 1]
       IN /\ prompts' = update_family(prompts, pid, family_id)
          /\ cw' = [cw EXCEPT !.queue = Tail(@), !.decided = @ \cup {pid},
                              !.assigned = IF family_id # NoFamily THEN @ + 1 ELSE @]
    /\ UNCHANGED <<families, templates, report, tp, last, iw, lineage>>

\* full pass, step 8: the template sweep; what it raises is logged
FullTemplates ==
    /\ cw.pc = "full_assign"
    /\ cw.queue = <<>>
    /\ cw' = EndTick(cw, "done")
    /\ UNCHANGED <<prompts, families, templates, report, tp, last, iw, lineage>>

\* incremental path, step 4: embed one prompt, find its family, commit both
IncAssignStep ==
    /\ cw.pc = "inc_assign"
    /\ cw.queue # <<>>
    /\ LET pid == Head(cw.queue)
           row == get_by_id(prompts, pid)[1]
           embedding == embed(row.normalized_text)
           hit == find_nearest_family(embedding, get_all_centroids(families))
       IN IF ~Truthy(row.normalized_text)
          THEN /\ cw' = [cw EXCEPT !.queue = Tail(@)]
               /\ UNCHANGED prompts
          ELSE \E embedOk \in BOOLEAN :
                  IF ~embedOk
                  THEN /\ cw' = EndTick(cw, "failed")
                       /\ UNCHANGED prompts
                  ELSE /\ prompts' = update_embedding_and_family(prompts, pid, embedding,
                                                                 hit.family_id)
                       /\ cw' = [cw EXCEPT !.queue = Tail(@),
                                           !.embedded = @ \cup {pid},
                                           !.decided = @ \cup {pid},
                                           !.assigned = IF hit.family_id # NoFamily
                                                        THEN @ + 1 ELSE @]
    /\ UNCHANGED <<families, templates, report, tp, last, iw, lineage>>

\* incremental path: update_all_member_counts, then the template sweep if
\* anything was assigned; an exception of the sweep ends the tick
IncFinish ==
    /\ cw.pc = "inc_assign"
    /\ cw.queue = <<>>
    /\ families' = update_all_member_counts(families, prompts)
    /\ LET sweep == process_all_families(families', families', templates, prompts, FALSE)
       IN cw' = EndTick(cw, IF cw.assigned > 0 /\ sweep.raised THEN "failed" ELSE "done")
    /\ UNCHANGED <<prompts, templates, report, tp, last, iw, lineage>>

\* the process is stopped (shutdown signal, crash) between two commits
ClassifyStop ==
    /\ cw.pc # "idle"
    /\ cw' = EndTick(cw, "stopped")
    /\ UNCHANGED <<prompts, families, templates, report, tp, last, iw, lineage>>

\* a log reaches the store through ingest --source=portkey
ClassifyArrive ==
    /\ Len(prompts) < MaxCorpus
    /\ LET batch == <<Len(prompts) + 1>>
           st == IngestPortkeyLoop([store |-> prompts, saved |-> 0, duplicates |-> 0],
                                   <<map_log_to_instance(batch[1])>>)
       IN /\ prompts' = st.store
          /\ report' = [NoReport EXCEPT !.op = "ingest_portkey", !.batch = batch,
                          !.saved = st.saved, !.duplicates = st.duplicates]
    /\ UNCHANGED <<families, templates, cw, tp, last, iw, lineage>>

InitClassify ==
    /\ prompts = <<>>
    /\ families = <<>>
    /\ templates = <<>>
    /\ report = NoReport
    /\ cw = IdleWorker
    /\ tp = <<>>
    /\ last = NoLast
    /\ iw = IngestLoopStart
    /\ lineage = <<>>

NextClassify ==
    \/ ClassifyTickStart
    \/ FullEmbedStep
    \/ FullCluster
    \/ FullFamilyStep
    \/ FullAssignStep
    \/ FullTemplates
    \/ IncAssignStep
    \/ IncFinish
    \/ ClassifyStop
    \/ ClassifyArrive

SpecClassify == InitClassify /\ [][NextClassify]_vars

----------------------------------------------------------------------------
(* Properties of the classification worker *)

C6_Assigned(store) == {i \in 1..Len(store) : store[i].family_id # NoFamily}
C6_FullPcs == {"full_embed", "full_families", "full_assign"}

\* C6: a classification tick runs the full clustering pass iff the number of
\* family-assigned prompts at its start is below the bootstrap threshold, and
\* then no step of it commits an embedding together with a family (no
\* incremental assignment); otherwise it takes the incremental path, and no
\* step of it creates a family or rewrites a centroid (no full clusterer).
C6_BootstrapGate ==
    [][/\ (cw.pc = "idle" /\ cw'.tick = cw.tick + 1) =>
            LET C == Cardinality(C6_Assigned(prompts))
            IN /\ cw'.mode = "full" <=> C < BOOTSTRAP_THRESHOLD
               /\ cw'.mode = "incremental" <=> C >= BOOTSTRAP_THRESHOLD
               /\ cw'.classified = C
               /\ cw'.pc \in (IF C < BOOTSTRAP_THRESHOLD THEN {"idle", "full_embed"}
                                                       ELSE {"idle", "inc_assign"})
       /\ cw.pc \in C6_FullPcs =>
            /\ cw.mode = "full"
            /\ cw.classified < BOOTSTRAP_THRESHOLD
            /\ cw'.pc \in C6_FullPcs \cup {"idle"}
            /\ \A i \in 1..Len(prompts) :
                  ~(/\ prompts'[i].embedding_vector # prompts[i].embedding_vector
                    /\ prompts'[i].family_id # prompts[i].family_id)
       /\ cw.pc = "inc_assign" =>
            /\ cw.mode = "incremental"
            /\ cw.classified >= BOOTSTRAP_THRESHOLD
            /\ cw'.pc \in {"inc_assign", "idle"}
            /\ Len(families') = Len(families)
            /\ \A k \in 1..Len(families) :
                  /\ families'[k].centroid_vector = families[k].centroid_vector
                  /\ families'[k].version = families[k].version
    ]_vars

\* a second tick took the incremental path and assigned a prompt, after a
\* first tick that bootstrapped
C6_Witness ==
    /\ cw.tick = 2
    /\ cw.mode = "incremental"
    /\ cw.outcome = "done"
    /\ cw.embedded # {}
    /\ cw.classified >= BOOTSTRAP_THRESHOLD

C7_P(store) ==
    {i \in 1..Len(store) : ~HasEmbedding(store[i]) \/ store[i].family_id = NoFamily}

\* C7: an incremental tick is skipped iff P < batch_size, P the number of
\* prompts lacking an embedding or a family; a skipped tick changes no prompt
\* and no family; a tick that is not skipped fetches its batch from the set the
\* gate counted, so it gets batch_size prompts of that set.
C7_SkipGate ==
    [][(cw.pc = "idle" /\ cw'.tick = cw.tick + 1 /\ cw'.mode = "incremental") =>
          /\ cw'.outcome = "skipped" <=> Cardinality(C7_P(prompts)) < batch_size
          /\ cw'.outcome = "skipped" => (prompts' = prompts /\ families' = families)
          /\ cw'.outcome # "skipped" =>
                /\ Range(cw'.batch) \subseteq {prompts[i].prompt_id : i \in C7_P(prompts)}
                /\ Len(cw'.batch) = batch_size
    ]_vars

\* C8: no prompt is observed with the embedding a tick wrote but without the
\* family decision of that tick, in any state, during a tick or after a tick
\* that failed or was stopped.
C8_EmbeddingWithDecision ==
    \A pid \in cw.embedded : pid \in cw.decided

----------------------------------------------------------------------------
(* packages/template_engine: alignment, slot detection, template building,  *)
(* for families whose prompts are one token each                            *)

MaxTemplates == 3       \* rows the template table may hold
NumProcs == 2           \* processes that may run update_family at the same time

\* align_prompts over one-token prompts: the first prompt is the reference;
\* if every other prompt equals it the token is common structure, otherwise
\* it is one variable region whose examples are the distinct tokens seen
align_prompts(texts) ==
    IF texts = <<>> THEN [common |-> TRUE, token |-> <<>>, examples |-> {}]
    ELSE IF \A i \in 1..Len(texts) : texts[i] = texts[1]
         THEN [common |-> TRUE, token |-> texts[1], examples |-> {}]
         ELSE [common |-> FALSE, token |-> texts[1],
               examples |-> {texts[i] : i \in 1..Len(texts)}]

NumDates == 2           \* date tokens a variable region may show
NumWords == 2           \* plain words a variable region may show

Digits == <<"1", "2", "3", "4", "5", "6", "7", "8", "9">>

\* tokens of the shape d/d/dd, and plain words
DateToken(k) == <<"1", "/", Digits[k], "/", "2", "0">>
WordToken(k) == <<"w", Digits[k]>>

\* DATE_PATTERN.match: the tokens of the vocabulary the pattern accepts
DateTokens == {DateToken(k) : k \in 1..Len(Digits)}

\* detect_slot_type for examples that are dates or plain words (none is a
\* number, an e-mail address or a URL)
detect_slot_type(examples) ==
    IF examples # {} /\ examples \subseteq DateTokens THEN "date"
    ELSE IF Cardinality(examples) <= 5 /\ Cardinality(examples) >= 3 THEN "enum"
    ELSE "text"

\* generate_slot_name: an enum is named after examples[0], and examples is
\* list(set(...)), so any example may come first
SlotNames(position, examples, slot_type) ==
    CASE slot_type = "enum" -> {[kind |-> "option", base |-> ex, n |-> 0] : ex \in examples}
      [] slot_type = "date" -> {[kind |-> "date", base |-> <<>>, n |-> 0]}
      [] OTHER -> {[kind |-> "text", base |-> <<>>, n |-> position]}

\* build_template(alignment, detect_slots(alignment)): the canonical templates
\* the pipeline may compute for these prompts
CanonicalTemplates(texts) ==
    LET alignment == align_prompts(texts)
        slot_type == detect_slot_type(alignment.examples)
    IN IF alignment.common
       THEN {[text |-> <<[slot |-> FALSE, token |-> alignment.token,
                          name |-> [kind |-> "none", base |-> <<>>, n |-> 0]]>>,
              slots |-> <<>>]}
       ELSE {[text |-> <<[slot |-> TRUE, token |-> <<>>, name |-> name]>>,
              slots |-> <<[name |-> name, type |-> slot_type, position |-> 0,
                           examples |-> alignment.examples]>>] :
               name \in SlotNames(0, alignment.examples, slot_type)}

----------------------------------------------------------------------------
(* packages/template_engine/versioning.py *)

bump(version, bump_type) ==
    CASE bump_type = "major" -> <<version[1] + 1, 0, 0>>
      [] bump_type = "minor" -> <<version[1], version[2] + 1, 0>>
      [] bump_type = "patch" -> <<version[1], version[2], version[3] + 1>>
      [] OTHER -> version

\* added slots decide after removed ones, whatever was found before
compute_version_bump_added_last(old_template, new_template, old_version) ==
    LET old_slots == {old_template.slots[i].name : i \in 1..Len(old_template.slots)}
        new_slots == {new_template.slots[i].name : i \in 1..Len(new_template.slots)}
        removed == old_slots \ new_slots # {}
        added == new_slots \ old_slots # {}
        retyped == \E i \in 1..Len(old_template.slots), j \in 1..Len(new_template.slots) :
                      /\ old_template.slots[i].name = new_template.slots[j].name
                      /\ old_template.slots[i].type # new_template.slots[j].type
        bump_type == IF retyped THEN "major"
                     ELSE IF added THEN "minor"
                     ELSE IF removed THEN "major"
                     ELSE IF old_template.text # new_template.text THEN "patch"
                     ELSE "none"
    IN [bump_type |-> bump_type, new_version |-> bump(old_version, bump_type)]

compute_version_bump(old_template, new_template, old_version) ==
    LET old_slots == {old_template.slots[i].name : i \in 1..Len(old_template.slots)}
        new_slots == {new_template.slots[i].name : i \in 1..Len(new_template.slots)}
        removed == old_slots \ new_slots # {}
        added == new_slots \ old_slots # {}
        retyped == \E i \in 1..Len(old_template.slots), j \in 1..Len(new_template.slots) :
                      /\ old_template.slots[i].name = new_template.slots[j].name
                      /\ old_template.slots[i].type # new_template.slots[j].type
        bump_type == IF removed \/ retyped THEN "major"
                     ELSE IF added THEN "minor"
                     ELSE IF old_template.text # new_template.text THEN "patch"
                     ELSE "none"
    IN [bump_type |-> bump_type, new_version |-> bump(old_version, bump_type)]

----------------------------------------------------------------------------
(* packages/template_engine/pipeline.py: TemplatePipeline.update_family *)

template_update_threshold == 5

\* a pipeline that asks for no more prompts than the clusterer asks for points
min_prompts_of_cluster == min_cluster_size

min_prompts == 3

check_needs_template_update(family) ==
    \/ family.member_count - family.member_count_at_last_template >= template_update_threshold
    \/ family.needs_template_update

\* the rows the query for the current active template may return first
ActiveTemplates(tmpls, family_id) ==
    {k \in 1..Len(tmpls) : tmpls[k].family_id = family_id /\ tmpls[k].is_active}

IdleWriter ==
    [pc |-> "idle", family_id |-> NoFamily, force |-> FALSE, current |-> NoTemplate,
     canonical |-> [text |-> <<>>, slots |-> <<>>], version |-> <<1, 0, 0>>,
     bump_type |-> "none", seeds |-> <<>>, member_count |-> 0]

\* what a template operation answered: PipelineResult of update_family, or the
\* return / exception of TemplateGenerator.process_family
TemplateResult(op, family_id, force, success, error, extracted, is_update) ==
    [op |-> op, family_id |-> family_id, force |-> force, success |-> success,
     error |-> error, extracted |-> extracted, is_update |-> is_update]

prompt_text(r) == IF Truthy(r.normalized_text) THEN r.normalized_text ELSE r.original_text

\* update_family up to the query for the current active template: all reads
UF_Begin(p, family_id, force) ==
    LET fam == SelectSeq(families, LAMBDA f : f.family_id = family_id)
        members == get_by_family(prompts, family_id)
        texts == [i \in 1..Len(members) |-> prompt_text(members[i])]
        active == ActiveTemplates(templates, family_id)
        reading == Cardinality({q \in 1..NumProcs : tp[q].pc = "read"})
    IN /\ tp[p].pc = "idle"
       /\ Len(templates) + reading < MaxTemplates
       /\ IF fam = <<>>
          THEN /\ last' = TemplateResult("update_family", family_id, force, FALSE, "not_found",
                                         FALSE, FALSE)
               /\ UNCHANGED tp
          ELSE IF ~force /\ ~check_needs_template_update(fam[1])
          THEN /\ last' = TemplateResult("update_family", family_id, force, TRUE,
                                         "no_update_needed",
                                         FALSE, FALSE)
               /\ UNCHANGED tp
          ELSE IF Len(members) < min_prompts
          THEN /\ last' = TemplateResult("update_family", family_id, force, FALSE,
                                         "not_enough_prompts",
                                         FALSE, FALSE)
               /\ UNCHANGED tp
          ELSE /\ \E canonical \in CanonicalTemplates(texts) :
                  \E k \in (IF active = {} THEN {0} ELSE active) :
                     LET b == IF k = 0
                              THEN [bump_type |-> "none", new_version |-> <<1, 0, 0>>]
                              ELSE compute_version_bump(
                                     [text |-> templates[k].template_text,
                                      slots |-> templates[k].slots],
                                     canonical, templates[k].version)
                     IN tp' = [tp EXCEPT ![p] =
                                 [pc |-> "read", family_id |-> family_id, force |-> force,
                                  current |-> IF k = 0 THEN NoTemplate
                                              ELSE templates[k].template_id,
                                  canonical |-> canonical,
                                  version |-> b.new_version,
                                  bump_type |-> b.bump_type,
                                  seeds |-> [i \in 1..(IF Len(members) < 10 THEN Len(members)
                                                       ELSE 10) |-> members[i].prompt_id],
                                  member_count |-> fam[1].member_count]]
               /\ UNCHANGED last
       /\ UNCHANGED <<prompts, families, templates, report, cw, iw, lineage>>

\* update_family from the deactivation of the current template to the result:
\* one commit; the result is then built from new_template.version_string,
\* which the stored Template does not have, so the call answers success=False
UF_Commit(p) ==
    LET w == tp[p]
    IN /\ w.pc = "read"
       /\ templates' =
            Append([k \in 1..Len(templates) |->
                      IF templates[k].template_id = w.current
                      THEN [templates[k] EXCEPT !.is_active = FALSE]
                      ELSE templates[k]],
                   [template_id |-> Len(templates) + 1,
                    family_id |-> w.family_id,
                    parent_template_id |-> w.current,
                    is_active |-> TRUE,
                    template_text |-> w.canonical.text,
                    slots |-> w.canonical.slots,
                    version |-> w.version,
                    created_at |-> Len(prompts)])
       /\ prompts' = [i \in 1..Len(prompts) |->
                        IF prompts[i].prompt_id \in Range(w.seeds)
                        THEN [prompts[i] EXCEPT !.is_template_seed = TRUE]
                        ELSE prompts[i]]
       /\ families' = [i \in 1..Len(families) |->
                         IF families[i].family_id = w.family_id
                         THEN [families[i] EXCEPT
                                 !.member_count_at_last_template = w.member_count,
                                 !.needs_template_update = FALSE]
                         ELSE families[i]]
       /\ tp' = [tp EXCEPT ![p] = IdleWriter]
       /\ last' = TemplateResult("update_family", w.family_id, w.force, FALSE, "exception",
                                 TRUE, w.current # NoTemplate)
       /\ UNCHANGED <<report, cw, iw, lineage>>

\* TemplateGenerator.process_family, as the worker hook, full-classify and
\* update-templates call it for every family (force = FALSE) or with force
TG_ProcessFamily(family_id, force) ==
    LET r == process_family(families, templates, prompts, family_id, force)
    IN /\ last' = TemplateResult("process_family", family_id, force, ~r.raised,
                                 IF r.raised THEN "exception" ELSE "none",
                                 r.attempted, r.is_update)
       /\ UNCHANGED <<prompts, families, templates, report, cw, tp, iw, lineage>>

\* on_prompt_added_to_family: the hook answers None unless the family exists
\* and needs an update, and then runs update_family without force
OnPromptAdded(p, family_id) ==
    LET fam == SelectSeq(families, LAMBDA f : f.family_id = family_id)
    IN IF fam = <<>> \/ ~check_needs_template_update(fam[1])
       THEN /\ tp[p].pc = "idle"
            /\ last' = TemplateResult("on_prompt_added", family_id, FALSE, TRUE, "none",
                                      FALSE, FALSE)
            /\ UNCHANGED <<prompts, families, templates, report, cw, tp, iw, lineage>>
       ELSE UF_Begin(p, family_id, FALSE)

----------------------------------------------------------------------------
(* The template model: the store after ingest --source=portkey of the first *)
(* three to InitCorpus logs and one full classification; then template      *)
(* operations, and prompts added with the add command                       *)

InitCorpus == 4

RECURSIVE IngestLogs(_, _)
IngestLogs(store, n) ==
    IF n = 0 THEN store
    ELSE create_from_instance(IngestLogs(store, n - 1), map_log_to_instance(n))

\* prompts_dict: the prompts with a text, in table order
FullPassIds(store) ==
    LET with_text == SelectSeq(store, LAMBDA r : Truthy(r.normalized_text))
    IN [i \in 1..Len(with_text) |-> with_text[i].prompt_id]

EmbedAll(store) ==
    [i \in 1..Len(store) |->
        IF Truthy(store[i].normalized_text) /\ ~HasEmbedding(store[i])
        THEN [store[i] EXCEPT !.embedding_vector = Some(embed(store[i].normalized_text))]
        ELSE store[i]]

\* the fallback name of every cluster a pass may find
FallbackNames == [c \in 1..(MaxCorpus \div min_cluster_size) |-> ClusterName(c - 1)]

\* step 6 of the full pass for the clusters in order; names[c + 1] is what
\* generate_family_name answers for cluster c
RECURSIVE StoreFamilies(_, _, _, _, _)
StoreFamilies(fams, store, labels, clusters, names) ==
    IF clusters = <<>> THEN fams
    ELSE LET member_ids == ClusterMembers(FullPassIds(store), labels, Head(clusters))
         IN StoreFamilies(
              create_or_update_family(fams, Head(clusters),
                                      Some(compute_cluster_centroid(store, member_ids)),
                                      Len(member_ids), names[Head(clusters) + 1]).families,
              store, labels, Tail(clusters), names)

\* cluster_id_to_family_id: the family that carries the name of the cluster
FamilyOfCluster(fams, names, c) ==
    SelectSeq(fams, LAMBDA f : f.family_name = names[c + 1])[1].family_id

\* step 7 of the full pass: the prompts of `ids` get the family of their
\* label, or none for noise; the other prompts are not visited
AssignAll(store, ids, fams, labels, names) ==
    [i \in 1..Len(store) |->
        IF \E k \in 1..Len(ids) : ids[k] = store[i].prompt_id
        THEN LET k == CHOOSE k \in 1..Len(ids) : ids[k] = store[i].prompt_id
             IN IF labels[k] = -1 THEN [store[i] EXCEPT !.family_id = NoFamily]
                ELSE [store[i] EXCEPT !.family_id = FamilyOfCluster(fams, names, labels[k])]
        ELSE store[i]]

InitTemplate ==
    \E n \in 3..InitCorpus :
    LET store == EmbedAll(IngestLogs(<<>>, n))
        ids == FullPassIds(store)
    IN \E labels \in Clusterings(ids, store) :
          LET fams == StoreFamilies(<<>>, store, labels, ClusterOrder(labels, {}),
                                    FallbackNames)
          IN /\ prompts = AssignAll(store, ids, fams, labels, FallbackNames)
             /\ families = fams
             /\ templates = <<>>
             /\ report = NoReport
             /\ cw = IdleWorker
             /\ tp = [q \in 1..NumProcs |-> IdleWriter]
             /\ last = NoLast
             /\ iw = IngestLoopStart
             /\ lineage = <<>>

UpdateFamilyBegin ==
    \E p \in 1..NumProcs, family_id \in 1..(Len(families) + 1), force \in BOOLEAN :
        UF_Begin(p, family_id, force)

UpdateFamilyCommit ==
    \E p \in 1..NumProcs : tp[p].pc = "read" /\ UF_Commit(p)

ProcessFamily ==
    \E family_id \in 1..Len(families), force \in BOOLEAN : TG_ProcessFamily(family_id, force)

PromptAddedHook ==
    \E p \in 1..NumProcs, family_id \in 1..Len(families) : OnPromptAdded(p, family_id)

TemplateAdd ==
    \E text \in RawTexts : Len(prompts) < MaxCorpus /\ Add(text, TRUE, MaxCorpus)

NextTemplate ==
    \/ UpdateFamilyBegin
    \/ UpdateFamilyCommit
    \/ PromptAddedHook
    \/ ProcessFamily
    \/ TemplateAdd

SpecTemplate == InitTemplate /\ [][NextTemplate]_vars

----------------------------------------------------------------------------
(* Properties of the template store *)

C9_Rows(tmpls, family_id) == {k \in 1..Len(tmpls) : tmpls[k].family_id = family_id}

\* C9: every re-extraction for a family that already has a template, from
\* whichever entry point, inserts a new template row whose parent is the
\* previously active template, deactivates that template, and leaves the
\* text, slots and version of the rows that existed unchanged.
C9_ReExtractionInsertsRow ==
    [][(/\ last' # last
        /\ last'.op \in {"update_family", "process_family"}
        /\ last'.extracted
        /\ C9_Rows(templates, last'.family_id) # {})
       => LET f == last'.family_id
              prev == ActiveTemplates(templates, f)
          IN /\ Len(templates') = Len(templates) + 1
             /\ templates'[Len(templates')].family_id = f
             /\ \E k \in prev :
                   templates'[Len(templates')].parent_template_id = templates[k].template_id
             /\ \A k \in prev : ~templates'[k].is_active
             /\ \A k \in 1..Len(templates) :
                   /\ templates'[k].template_text = templates[k].template_text
                   /\ templates'[k].slots = templates[k].slots
                   /\ templates'[k].version = templates[k].version
    ]_vars

\* C10: in every state, whatever the interleaving of template operations on
\* a family, the family has at most one active template, and exactly one once
\* it has a template.
C10_OneActiveTemplate ==
    \A f \in 1..Len(families) :
        /\ Cardinality(ActiveTemplates(templates, f)) <= 1
        /\ C9_Rows(templates, f) # {} => Cardinality(ActiveTemplates(templates, f)) = 1

C11_Parent(k) == templates[k].parent_template_id

\* C11: in every state the templates of a family, linked by
\* parent_template_id, form one linear chain: exactly one template has no
\* parent, every other parent is a template of the same family, no template is
\* the parent of two templates, and an active template has no successor.
C11_LinearChain ==
    \A f \in 1..Len(families) :
        LET rows == C9_Rows(templates, f)
        IN rows # {} =>
             /\ Cardinality({k \in rows : C11_Parent(k) = NoTemplate}) = 1
             /\ \A k \in rows :
                   C11_Parent(k) # NoTemplate
                      => \E j \in rows : templates[j].template_id = C11_Parent(k)
             /\ \A j, k \in rows :
                   (j # k /\ C11_Parent(j) # NoTemplate) => C11_Parent(j) # C11_Parent(k)
             /\ \A k \in rows :
                   templates[k].is_active
                      => ~\E j \in rows : C11_Parent(j) = templates[k].template_id

C12_Less(u, v) ==
    \/ u[1] < v[1]
    \/ u[1] = v[1] /\ u[2] < v[2]
    \/ u[1] = v[1] /\ u[2] = v[2] /\ u[3] < v[3]

\* C12: in every state the (major, minor, patch) versions of a family's
\* templates, taken in insertion order, are strictly increasing
\* lexicographically, also when an extraction yields the active template again.
C12_VersionsIncrease ==
    \A j, k \in 1..Len(templates) :
        (j < k /\ templates[j].family_id = templates[k].family_id)
           => C12_Less(templates[j].version, templates[k].version)

----------------------------------------------------------------------------
(* The family model: one store from empty on, with logs arriving,           *)
(* full-classify runs, the template sweep and one caller of                 *)
(* TemplatePipeline.update_family                                           *)

FamilyCorpus == 4       \* prompts the store may hold in the family model
MaxRuns == 2            \* runs of full-classify in one run of the model

\* the statistics a run starts with, reported as they are when it returns early
InitialStats_counting(total_prompts) ==
    [op |-> "full_classify", total_prompts |-> total_prompts,
     clusters_created |-> total_prompts, prompts_assigned |-> 0]

InitialStats(total_prompts) ==
    [op |-> "full_classify", total_prompts |-> total_prompts,
     clusters_created |-> 0, prompts_assigned |-> 0]

\* one whole run of FullClassifier.run; names[c + 1] is the name given to
\* cluster c.  cw keeps the number of runs and what the last run did.
\* HDBSCAN is a function of its input: a run over the prompts of the run
\* before it gets the same labels.
FullPassOutcomes(names) ==
    LET store == EmbedAll(prompts)
        ids == FullPassIds(store)
        ran == [IdleWorker EXCEPT !.mode = "full", !.outcome = "done",
                                  !.tick = cw.tick + 1,
                                  !.classified = get_classified_count(prompts)]
    IN IF Len(prompts) < 2
       THEN {[store |-> prompts, families |-> families,
              worker |-> [ran EXCEPT !.ids = cw.ids, !.labels = cw.labels],
              stats |-> InitialStats(Len(prompts))]}
       ELSE {LET clusters == ClusterOrder(labels, {})
                 fams == StoreFamilies(families, store, labels, clusters, names)
                 labelled == IF labels = <<>> THEN <<>> ELSE ids
             IN [store |-> AssignAll(store, labelled, fams, labels, names),
                 families |-> fams,
                 worker |-> [ran EXCEPT
                               !.ids = ids, !.labels = labels,
                               !.c2f = [k \in 1..Len(clusters) |->
                                          FamilyOfCluster(fams, names, clusters[k])]],
                 stats |-> [InitialStats(Len(prompts)) EXCEPT
                              !.clusters_created = Len(clusters),
                              !.prompts_assigned =
                                 Cardinality({k \in 1..Len(labels) : labels[k] # -1})]] :
               labels \in {l \in Clusterings(ids, store) : ids = cw.ids => l = cw.labels}}

FullPassRun(names) ==
    /\ \E r \in FullPassOutcomes(names) :
          /\ prompts' = r.store
          /\ families' = r.families
          /\ cw' = r.worker
          /\ last' = r.stats
    /\ UNCHANGED <<templates, report, tp, iw, lineage>>

\* the full-classify command, with the fallback family names
FullClassify == cw.tick < MaxRuns /\ FullPassRun(FallbackNames)

InitFamily ==
    /\ prompts = <<>>
    /\ families = <<>>
    /\ templates = <<>>
    /\ report = NoReport
    /\ cw = IdleWorker
    /\ tp = [q \in 1..NumProcs |-> IdleWriter]
    /\ last = NoLast
    /\ iw = IngestLoopStart
    /\ lineage = <<>>

PipelineBegin ==
    \E family_id \in 1..Len(families), force \in BOOLEAN :
        Len(families) > 0 /\ UF_Begin(1, family_id, force)

PipelineCommit == tp[1].pc = "read" /\ UF_Commit(1)

\* update-templates: TemplateGenerator.process_all_families without force
UpdateTemplates ==
    /\ LET sweep == process_all_families(families, families, templates, prompts, FALSE)
       IN last' = [op |-> "update_templates", raised |-> sweep.raised,
                   family_id |-> sweep.family_id, is_update |-> sweep.is_update]
    /\ UNCHANGED <<prompts, families, templates, report, cw, tp, iw, lineage>>

MaxFamilies == 2        \* family rows the table may hold when `run` starts

FamilyOfBatch(cluster_id) == [kind |-> "family", n |-> cluster_id]

\* create_family: a new row, whatever rows exist
create_family(fams, family_name, member_count, centroid_vector) ==
    Append(fams, [family_id |-> Len(fams) + 1,
                  family_name |-> family_name,
                  centroid_vector |-> centroid_vector,
                  member_count |-> member_count,
                  version |-> 1,
                  member_count_at_last_template |-> 0,
                  needs_template_update |-> TRUE])

\* the run command: ProcessingService.process_batch over the prompts without
\* embedding.  It embeds them, clusters them and, for the first cluster,
\* creates the family and calls FamilyRepository.create_template, which
\* raises: the command ends there, with no template stored and the members
\* of the cluster not assigned.
RunBatch ==
    /\ Len(families) < MaxFamilies
    /\ PendingRows(prompts) # <<>>
    /\ LET pending == PendingRows(prompts)
           ids == [i \in 1..Len(pending) |-> pending[i].prompt_id]
           store == [i \in 1..Len(prompts) |->
                       IF IsNone(prompts[i].embedding_vector)
                       THEN [prompts[i] EXCEPT
                               !.embedding_vector = Some(embed(prompts[i].original_text))]
                       ELSE prompts[i]]
       IN /\ prompts' = store
          /\ \E labels \in Clusterings(ids, store) :
                LET clusters == ClusterOrder(labels, {})
                IN IF clusters = <<>>
                   THEN /\ last' = [op |-> "run", processed |-> Len(pending),
                                    families_created |-> 0, raised |-> FALSE]
                        /\ UNCHANGED families
                   ELSE /\ families' =
                             create_family(families, FamilyOfBatch(Head(clusters)),
                                           Len(ClusterMembers(ids, labels, Head(clusters))),
                                           None)
                        /\ last' = [op |-> "run", processed |-> Len(pending),
                                    families_created |-> 0, raised |-> TRUE]
    /\ UNCHANGED <<templates, report, cw, tp, iw, lineage>>

\* a log reaches the store through ingest --source=portkey
FamilyArrive == Len(prompts) < FamilyCorpus /\ ClassifyArrive

NextFamily ==
    \/ FamilyArrive
    \/ FullClassify
    \/ PipelineBegin
    \/ PipelineCommit
    \/ UpdateTemplates

SpecFamily == InitFamily /\ [][NextFamily]_vars

----------------------------------------------------------------------------
(* The batch model: the store from empty on under the commands that may     *)
(* create a first template: run, full-classify, update-templates, and the   *)
(* hook that calls update_family when a family needs a template             *)

HookBegin ==
    \E family_id \in 1..Len(families) : Len(families) > 0 /\ OnPromptAdded(1, family_id)

NextRun ==
    \/ FamilyArrive
    \/ RunBatch
    \/ FullClassify
    \/ UpdateTemplates
    \/ HookBegin
    \/ PipelineCommit

SpecRun == InitFamily /\ [][NextRun]_vars

\* C13: in every state every family has
\* member_count >= member_count_at_last_template >= 0.
C13_CountsOrdered ==
    \A k \in 1..Len(families) :
        /\ families[k].member_count >= families[k].member_count_at_last_template
        /\ families[k].member_count_at_last_template >= 0

C15_Growth(f) == families[f].member_count - families[f].member_count_at_last_template

C15_Newest(tmpls, f) == tmpls[CHOOSE k \in C9_Rows(tmpls, f) : \A j \in C9_Rows(tmpls, f) : j <= k]

\* C15: whenever the sweep of the template engine runs over a family that has
\* an active template and has grown by at least the re-extraction delta since
\* its last extraction, however the new members joined, the family's newest
\* template afterwards has a higher version (at least a PATCH bump); when
\* every family has grown by less and the sweep is not forced, no template
\* changes.
C15_SweepUpdatesGrownFamily ==
    [][last'.op = "update_templates" =>
          /\ \A f \in 1..Len(families) :
                (ActiveTemplates(templates, f) # {} /\ C15_Growth(f) >= NewMemberDelta)
                   => C12_Less(C15_Newest(templates, f).version,
                               C15_Newest(templates', f).version)
          /\ (\A f \in 1..Len(families) : C15_Growth(f) < NewMemberDelta)
                => templates' = templates
      ]_vars

----------------------------------------------------------------------------
(* The slot model: align_prompts -> detect_slots -> build_template applied  *)
(* to prompts of the shape <token> to <token>.  The tokens of the first and *)
(* of the second place come from disjoint vocabularies, so the only blocks  *)
(* SequenceMatcher can match lie at the same position in both prompts.      *)

MaxAligned == 3         \* prompts aligned in one extraction

Separator == <<"t", "o">>

RegionTokens(r) ==
    {DateToken(NumDates * (r - 1) + k) : k \in 1..NumDates}
       \cup {WordToken(NumWords * (r - 1) + k) : k \in 1..NumWords}

AlignedPrompts == {<<a, Separator, b>> : a \in RegionTokens(1), b \in RegionTokens(2)}

PromptLists == UNION {[1..n -> AlignedPrompts] : n \in 2..MaxAligned}

\* align_prompts over tokenized prompts: a position is common iff every other
\* prompt matches the reference there; a varying position collects the
\* reference token and what the others hold
align_positions(all_tokens) ==
    [i \in 1..Len(all_tokens[1]) |->
        LET ex == {all_tokens[p][i] : p \in 1..Len(all_tokens)}
        IN [common |-> Cardinality(ex) = 1, token |-> all_tokens[1][i],
            start |-> i - 1, examples |-> ex]]

\* variable_regions: here no two varying positions are adjacent
variable_regions(alignment) == SelectSeq(alignment, LAMBDA a : ~a.common)

\* detect_slots: the slot lists it may return (the name of an enum depends
\* on the order of a set)
detect_slots(alignment) ==
    LET regions == variable_regions(alignment)
        n == Len(regions)
        slot_type(i) == detect_slot_type(regions[i].examples)
        names(i) == SlotNames(i - 1, regions[i].examples, slot_type(i))
    IN {[i \in 1..n |-> [name |-> pick[i], type |-> slot_type(i),
                         position |-> regions[i].start, examples |-> regions[i].examples]] :
          pick \in {f \in [1..n -> UNION {names(i) : i \in 1..n}] :
                      \A i \in 1..n : f[i] \in names(i)}}

\* build_template: placeholder slot_i becomes the name of slot i; slot_map is
\* a dict keyed by slot name
build_template(alignment, slots) ==
    LET region_of(i) == Cardinality({j \in 1..i : ~alignment[j].common})
    IN [text |-> [i \in 1..Len(alignment) |->
                    IF alignment[i].common
                    THEN [slot |-> FALSE, token |-> alignment[i].token,
                          name |-> [kind |-> "none", base |-> <<>>, n |-> 0]]
                    ELSE [slot |-> TRUE, token |-> <<>>, name |-> slots[region_of(i)].name]],
        slots |-> slots,
        slot_map |-> {<<slots[k].name,
                        slots[CHOOSE m \in 1..Len(slots) :
                                 /\ slots[m].name = slots[k].name
                                 /\ \A q \in 1..Len(slots) :
                                       slots[q].name = slots[k].name => q <= m].position>> :
                        k \in 1..Len(slots)}]

InitSlots ==
    \E texts \in PromptLists :
        /\ prompts = <<>>
        /\ families = <<>>
        /\ templates = <<>>
        /\ report = [NoReport EXCEPT !.op = "align_prompts", !.batch = texts]
        /\ cw = IdleWorker
        /\ tp = <<>>
        /\ last = NoLast
        /\ iw = IngestLoopStart
        /\ lineage = <<>>

ExtractTemplate ==
    /\ LET alignment == align_positions(report.batch)
       IN \E slots \in detect_slots(alignment) :
             last' = [op |-> "build_template", template |-> build_template(alignment, slots)]
    /\ UNCHANGED <<prompts, families, templates, report, cw, tp, iw, lineage>>

NextSlots == ExtractTemplate

SpecSlots == InitSlots /\ [][NextSlots]_vars

\* C16: in every template built by align_prompts -> detect_slots ->
\* build_template no two slots have the same name.
C16_SlotNamesUnique ==
    last.op = "build_template" =>
        \A i, j \in 1..Len(last.template.slots) :
            i # j => last.template.slots[i].name # last.template.slots[j].name

\* C17: after every completed full clustering pass every stored family's
\* member_count equals the number of prompts whose family reference points
\* to it; a family that received no cluster in the pass has 0 members.
C17_PassRecountsEveryFamily ==
    [][(last'.op = "full_classify" /\ cw'.tick = cw.tick + 1 /\ Len(prompts) >= 2)
          => \A k \in 1..Len(families') :
                families'[k].member_count
                   = Len(get_by_family(prompts', families'[k].family_id))
      ]_vars


----------------------------------------------------------------------------
(* The centroid model: the full-classify command and whole ticks of the    *)
(* classification worker on one store.  generate_family_name may answer    *)
(* differently from one pass to the next.                                  *)

\* what generate_family_name may answer for the clusters of one pass
NameChoices ==
    {names \in [1..(MaxCorpus \div min_cluster_size)
                  -> UNION {FamilyNames(c) : c \in 0..(MaxCorpus \div min_cluster_size)}] :
        \A c \in DOMAIN names : names[c] \in FamilyNames(c - 1)}

\* the full-classify command
NamedFullClassify ==
    /\ cw.tick < MaxRuns
    /\ \E names \in NameChoices : FullPassRun(names)

\* run_cycle, step 4: every fetched prompt with a text is embedded, compared
\* with the centroids loaded in step 3 and written back
RECURSIVE IncLoop(_, _, _, _)
IncLoop(store, queue, centroids, done) ==
    IF queue = <<>> THEN [store |-> store, assigned |-> done.assigned,
                          processed |-> done.processed]
    ELSE LET row == get_by_id(store, Head(queue))[1]
             embedding == embed(row.normalized_text)
             hit == find_nearest_family(embedding, centroids)
         IN IF ~Truthy(row.normalized_text)
            THEN IncLoop(store, Tail(queue), centroids, done)
            ELSE IncLoop(update_embedding_and_family(store, row.prompt_id, embedding,
                                                     hit.family_id),
                         Tail(queue), centroids,
                         [assigned |-> IF hit.family_id # NoFamily
                                       THEN done.assigned + 1 ELSE done.assigned,
                          processed |-> done.processed \cup {row.prompt_id}])

\* run_cycle past the bootstrap check, run to its end: the store, the
\* family table, the worker's record and the statistics it leaves.
\* `centroids` of the statistics are the families whose centroid the prompts
\* were compared with.
IncrementalOutcome(classified, batch) ==
    LET started == StartIncremental(classified, batch)
        centroids == get_all_centroids(families)
        loop == IF started.outcome = "running"
                THEN IncLoop(prompts, batch, centroids, [assigned |-> 0, processed |-> {}])
                ELSE [store |-> prompts, assigned |-> 0, processed |-> {}]
        fams == IF started.outcome = "running"
                THEN update_all_member_counts(families, loop.store)
                ELSE families
        sweep == process_all_families(fams, fams, templates, loop.store, FALSE)
        outcome == IF started.outcome # "running" THEN started.outcome
                   ELSE IF loop.assigned > 0 /\ sweep.raised THEN "failed" ELSE "done"
    IN [store |-> loop.store,
        families |-> fams,
        recounted |-> started.outcome = "running",
        worker |-> [started EXCEPT !.pc = "idle", !.outcome = outcome, !.queue = <<>>,
                                   !.tick = cw.tick, !.ids = cw.ids, !.labels = cw.labels,
                                   !.c2f = cw.c2f, !.embedded = loop.processed,
                                   !.decided = loop.processed, !.assigned = loop.assigned],
        stats |-> [op |-> "run_cycle", skipped |-> started.outcome = "skipped",
                   processed |-> loop.processed,
                   centroids |-> IF loop.processed = {} THEN {}
                                 ELSE {centroids[k].family_id : k \in 1..Len(centroids)}]]

IncrementalRun(classified, batch) ==
    LET r == IncrementalOutcome(classified, batch)
    IN /\ prompts' = r.store
       /\ families' = r.families
       /\ cw' = r.worker
       /\ last' = r.stats
       /\ UNCHANGED <<templates, report, tp, iw, lineage>>

\* one tick of the classification worker: IncrementalWorker.run_cycle
WorkerTick ==
    LET classified == get_classified_count(prompts)
    IN IF classified < BOOTSTRAP_THRESHOLD
       THEN /\ cw.tick < MaxRuns
            /\ \E names \in NameChoices : FullPassRun(names)
       ELSE \E batch \in get_pending(prompts, batch_size) :
               IncrementalRun(classified, batch)

NextCentroid ==
    \/ FamilyArrive
    \/ NamedFullClassify
    \/ WorkerTick

SpecCentroid == InitFamily /\ [][NextCentroid]_vars

\* C18: every centroid an incremental tick compares a prompt against belongs
\* to a family written by the most recent full pass; no centroid left over
\* from an earlier pass is used for assignment.
C18_CentroidsOfLatestPass ==
    [][(last'.op = "run_cycle" /\ last'.processed # {})
          => \A f \in last'.centroids : \E k \in 1..Len(cw.c2f) : cw.c2f[k] = f
      ]_vars


\* C19: when a full clustering pass ends early, every family is whole: if its
\* record was written by the pass then all of its members' family references
\* were written too, and its member_count equals the number of prompts that
\* reference it.
C19_PartialPassKeepsFamiliesWhole ==
    [][(cw.mode = "full" /\ cw.pc # "idle" /\ cw'.pc = "idle"
          /\ cw'.outcome \in {"stopped", "failed"})
          => \A c \in 1..Len(cw.c2f) :
                cw.c2f[c] # NoFamily
                  => /\ \A i \in 1..Len(cw.ids) :
                           cw.labels[i] = c - 1
                             => get_by_id(prompts', cw.ids[i])[1].family_id = cw.c2f[c]
                     /\ \A k \in 1..Len(families') :
                           families'[k].family_id = cw.c2f[c]
                             => families'[k].member_count
                                  = Len(get_by_family(prompts', cw.c2f[c]))
      ]_vars


\* C20: a full classification run on a store of 0 or 1 prompts creates no
\* family, changes no prompt's family reference and reports zero clusters.
C20_SmallStoreNoClusters ==
    [][(last'.op = "full_classify" /\ cw'.tick = cw.tick + 1 /\ Len(prompts) <= 1)
          => /\ Len(families') = Len(families)
             /\ Len(prompts') = Len(prompts)
             /\ \A i \in 1..Len(prompts) : prompts'[i].family_id = prompts[i].family_id
             /\ last'.clusters_created = 0
      ]_vars

\* a run over a store of one prompt has returned
C20_Witness ==
    /\ last.op = "full_classify"
    /\ cw.mode = "full"
    /\ Len(prompts) = 1
    /\ last.total_prompts = 1
    /\ last.clusters_created = 0
    /\ families = <<>>


----------------------------------------------------------------------------
(* The overlap model: an ad-hoc full-classify invocation, commit by commit, *)
(* beside the classify-worker in its incremental mode.  The two are         *)
(* separate processes on one store; nothing in run_worker or                *)
(* run_full_classification takes a lock.  cw is the progress of the         *)
(* full-classify invocation; a tick of the worker is taken whole, between   *)
(* two commits of the invocation.                                           *)

\* run_full_classification: FullClassifier.run up to create_embeddings()
CommandStart ==
    /\ cw.pc = "idle"
    /\ cw.tick < MaxRuns
    /\ \E embedOk \in BOOLEAN :
          cw' = StartFullPass(get_classified_count(prompts), embedOk)
    /\ UNCHANGED <<prompts, families, templates, report, tp, last, iw, lineage>>

\* run_worker: one run_cycle of the worker past its bootstrap check
WorkerBeside ==
    /\ get_classified_count(prompts) >= BOOTSTRAP_THRESHOLD
    /\ \E batch \in get_pending(prompts, batch_size) :
          LET r == IncrementalOutcome(get_classified_count(prompts), batch)
          IN /\ prompts' = r.store
             /\ families' = r.families
             /\ last' = [r.stats EXCEPT !.op = IF r.recounted THEN "recount" ELSE "run_cycle"]
    /\ UNCHANGED <<templates, report, cw, tp, iw, lineage>>

NextOverlap ==
    \/ FamilyArrive
    \/ CommandStart
    \/ FullEmbedStep
    \/ FullCluster
    \/ FullFamilyStep
    \/ FullAssignStep
    \/ FullTemplates
    \/ WorkerBeside

SpecOverlap == InitFamily /\ [][NextOverlap]_vars

\* C21: a bulk recount of the member counts never runs while a full
\* clustering pass is in progress on the same store.
C21_RecountOutsideFullPass ==
    [][(last'.op = "recount" /\ UNCHANGED cw) => cw.pc = "idle"]_vars


----------------------------------------------------------------------------
(* packages/ingestion/worker.py, run_worker: the loop around the tick, with *)
(* the state file and the HTTP client of the one PortKeyIngestor            *)

Day == 2          \* timedelta(hours=24), in sleep intervals (144 in the code)
MaxClock == 3     \* sleeps of the ingestion worker in one run of the model

\* load_state: the time in the state file, or 24 hours ago without one
load_state(state_file, now) ==
    IF ~IsNone(state_file) THEN Val(state_file) ELSE now - Day

\* save_state swallows its exceptions: the file is written, or open() failed
\* and it is as before, or the write failed and what is left does not parse
\* (load_state then answers as without a file)
SaveOutcomes == {"written", "unchanged", "unreadable"}

save_state(state_file, last_run, how) ==
    CASE how = "written" -> Some(last_run)
      [] how = "unchanged" -> state_file
      [] OTHER -> None

\* where the loop goes from its except clause: the error is logged and the
\* loop falls through to its sleep
IngestAfterError_raise == "stopped"

IngestAfterError == "sleep"

\* one pass through the try block of the loop.  run_ingestion closes
\* self.client in its finally clause, whatever happened; a request on the
\* closed client raises, as does an export the API does not deliver.
IngestLoopTick ==
    /\ iw.pc = "tick"
    /\ LET last_run_time == load_state(iw.state_file, iw.now)
           current_run_time == iw.now
           ran == [iw EXCEPT !.pc = "sleep", !.time_min = Some(last_run_time),
                             !.client_closed = TRUE]
       IN \E apiOk \in BOOLEAN :
             IF iw.client_closed \/ ~apiOk
             THEN /\ iw' = [ran EXCEPT !.outcome = "failed", !.pc = IngestAfterError,
                                       !.api = IF iw.client_closed THEN "unreached"
                                               ELSE "failed"]
                  /\ report' = [NoReport EXCEPT !.op = "tick", !.errors = 1]
                  /\ UNCHANGED <<prompts, families, templates, cw, tp, last, lineage>>
             ELSE /\ \E batch \in Batches :
                        \E loaded \in Orderings(get_all_simhashes(prompts)) :
                           IngestTick(batch, loaded)
                  /\ \E how \in SaveOutcomes :
                        iw' = [ran EXCEPT !.outcome = "ok", !.api = "ok",
                                          !.state_file = save_state(iw.state_file,
                                                                    current_run_time, how)]

\* asyncio.sleep(interval_minutes * 60)
IngestLoopSleep ==
    /\ iw.pc = "sleep"
    /\ iw.now < MaxClock
    /\ iw' = [iw EXCEPT !.pc = "tick", !.now = @ + 1]
    /\ UNCHANGED <<prompts, families, templates, report, cw, tp, last, lineage>>

\* the worker starts on an empty store, with or without the state file of
\* an earlier run
InitWorker ==
    /\ prompts = <<>>
    /\ families = <<>>
    /\ templates = <<>>
    /\ report = NoReport
    /\ cw = IdleWorker
    /\ tp = <<>>
    /\ last = NoLast
    /\ iw \in {IngestLoopStart, [IngestLoopStart EXCEPT !.state_file = Some(-1)]}
    /\ lineage = <<>>

NextWorker ==
    \/ IngestLoopTick
    \/ IngestLoopSleep

SpecWorker == InitWorker /\ [][NextWorker]_vars

\* C22: last_run_time is written only by a tick that completed without an
\* exception; a failed tick leaves it as it was, and the tick after a failed
\* tick starts from the same time_min.
C22_StateAdvancesOnSuccessOnly ==
    [][(iw.pc = "tick" /\ iw'.pc # "tick")
          => /\ iw'.state_file # iw.state_file => iw'.outcome = "ok"
             /\ iw'.outcome = "failed" => iw'.state_file = iw.state_file
             /\ iw.outcome = "failed" => iw'.time_min = iw.time_min
      ]_vars


\* C28: after a tick that completed, the next tick of the ingestion worker
\* does not use an HTTP client that is already closed, and it completes
\* without error unless the export API fails.
C28_TickUsesOpenClient ==
    [][(iw.pc = "tick" /\ iw'.pc # "tick" /\ iw.outcome = "ok" /\ iw'.api # "failed")
          => /\ ~iw.client_closed
             /\ iw'.outcome = "ok"
      ]_vars


----------------------------------------------------------------------------
(* The two worker loops side by side: run_worker of the ingestion worker   *)
(* and run_worker of the classification worker, each a tick and a sleep.   *)

\* where the classification loop goes from its except clause
ClassifyAfterError == "sleep"

\* one pass through the try block of the classification loop: run_cycle as
\* a whole.  create_embeddings of a bootstrap pass may raise before anything
\* is written; the template sweep of an incremental tick may raise.
ClassifyLoopTick ==
    /\ cw.pc = "idle"
    /\ LET classified == get_classified_count(prompts)
       IN IF classified < BOOTSTRAP_THRESHOLD
          THEN /\ cw.tick < MaxRuns
               /\ \E embedOk \in BOOLEAN :
                     IF StartFullPass(classified, embedOk).outcome = "failed"
                     THEN /\ cw' = [StartFullPass(classified, embedOk) EXCEPT
                                      !.pc = ClassifyAfterError,
                                      !.ids = cw.ids, !.labels = cw.labels, !.c2f = cw.c2f]
                          /\ UNCHANGED <<prompts, families, last>>
                     ELSE \E names \in NameChoices : \E r \in FullPassOutcomes(names) :
                             /\ prompts' = r.store
                             /\ families' = r.families
                             /\ cw' = [r.worker EXCEPT !.pc = "sleep"]
                             /\ last' = r.stats
          ELSE \E batch \in get_pending(prompts, batch_size) :
                  LET r == IncrementalOutcome(classified, batch)
                  IN /\ prompts' = r.store
                     /\ families' = r.families
                     /\ cw' = [r.worker EXCEPT
                                 !.pc = IF r.worker.outcome = "failed"
                                        THEN ClassifyAfterError ELSE "sleep"]
                     /\ last' = r.stats
    /\ UNCHANGED <<templates, report, tp, iw, lineage>>

\* asyncio.sleep(interval_minutes * 60)
ClassifyLoopSleep ==
    /\ cw.pc = "sleep"
    /\ cw' = [cw EXCEPT !.pc = "idle"]
    /\ UNCHANGED <<prompts, families, templates, report, tp, last, iw, lineage>>

NextLoops ==
    \/ IngestLoopTick
    \/ IngestLoopSleep
    \/ ClassifyLoopTick
    \/ ClassifyLoopSleep

SpecLoops == InitWorker /\ [][NextLoops]_vars

\* a sleep ends: asyncio.sleep returns after its interval
SpecLoopsFair ==
    SpecLoops /\ WF_vars(IngestLoopSleep) /\ WF_vars(ClassifyLoopSleep)

\* C23: after a failing tick each worker loop is in its sleep and later at
\* the top of the loop again, where the next tick begins.
C23_NextTickBegins ==
    /\ (iw.outcome = "failed" /\ iw.pc # "tick" /\ iw.now < MaxClock) ~> (iw.pc = "tick")
    /\ (cw.outcome = "failed" /\ cw.pc # "idle") ~> (cw.pc = "idle")

\* both loops are back at the top after a failed tick
C23_Witness ==
    /\ iw.outcome = "failed" /\ iw.pc = "tick" /\ iw.now > 0
    /\ cw.outcome = "failed" /\ cw.pc = "idle" /\ cw.tick > 0


----------------------------------------------------------------------------
(* packages/template_engine/exposure.py: rendering.  A text is a sequence  *)
(* of characters; a parameter value is a str or an int.                    *)

MaxPieces == 2        \* pieces (placeholder or literal) in a template text

RenderNames == {"a", "b"}

\* f"{{{{{name}}}}}"
Placeholder(name) == <<"{", "{", name, "}", "}">>

StrValue(text) == [kind |-> "str", text |-> text, n |-> 0]
IntValue(n) == [kind |-> "int", text |-> <<>>, n |-> n]

\* str(value), for the values of the model
DigitChar(d) == CASE d = 0 -> "0" [] d = 7 -> "7" [] OTHER -> "9"

ToStr(value) == IF value.kind = "int" THEN <<DigitChar(value.n)>> ELSE value.text

\* str.replace(old, new): every non-overlapping occurrence, from the left
RECURSIVE StrReplace(_, _, _)
StrReplace(text, old, new) ==
    IF Len(text) < Len(old) THEN text
    ELSE IF SubSeq(text, 1, Len(old)) = old
         THEN new \o StrReplace(SubSeq(text, Len(old) + 1, Len(text)), old, new)
         ELSE <<Head(text)>> \o StrReplace(Tail(text), old, new)

\* _interpolate: params is the dict as its items in insertion order
RECURSIVE interpolate(_, _)
interpolate(template_text, params) ==
    IF params = <<>> THEN template_text
    ELSE interpolate(StrReplace(template_text, Placeholder(Head(params).name),
                                ToStr(Head(params).value)),
                     Tail(params))

HasKey(params, name) == \E i \in 1..Len(params) : params[i].name = name
Lookup(params, name) == params[CHOOSE i \in 1..Len(params) : params[i].name = name].value

\* NUMERIC_PATTERN.match: ^-?\d+\.?\d*$
IsDigitChar(c) == c \in {"0", "7", "9"}

MatchesNumeric(text) ==
    LET body == IF text # <<>> /\ Head(text) = "-" THEN Tail(text) ELSE text
    IN \E k \in 1..Len(body) :
          /\ \A i \in 1..k : IsDigitChar(body[i])
          /\ \/ k = Len(body)
             \/ /\ body[k + 1] = "."
                /\ \A i \in (k + 2)..Len(body) : IsDigitChar(body[i])

\* SlotValidator.validate: the errors, required slots first, then the values
validate(slots, params) ==
    LET missing == SelectSeq(slots, LAMBDA slot :
                      slot.required /\ ~HasKey(params, slot.name)
                      /\ IsNone(slot.default_value))
        known == SelectSeq(params, LAMBDA p : \E i \in 1..Len(slots) : slots[i].name = p.name)
        slot_of(p) == slots[CHOOSE i \in 1..Len(slots) : slots[i].name = p.name]
        bad == SelectSeq(known, LAMBDA p :
                  slot_of(p).slot_type = "numeric" /\ ~MatchesNumeric(ToStr(p.value)))
        errors == [i \in 1..Len(missing) |-> [error |-> "missing", name |-> missing[i].name]]
                  \o [i \in 1..Len(bad) |-> [error |-> "numeric", name |-> bad[i].name]]
    IN [is_valid |-> errors = <<>>, errors |-> errors]

\* the loop that builds final_params, over the slots still to visit
RECURSIVE FinalParams(_, _)
FinalParams(slots, params) ==
    IF slots = <<>> THEN <<>>
    ELSE LET slot == Head(slots)
             rest == FinalParams(Tail(slots), params)
         IN IF HasKey(params, slot.name)
            THEN <<[name |-> slot.name, value |-> Lookup(params, slot.name)]>> \o rest
            ELSE IF ~IsNone(slot.default_value)
            THEN <<[name |-> slot.name, value |-> StrValue(Val(slot.default_value))]>> \o rest
            ELSE IF ~slot.required
            THEN <<[name |-> slot.name, value |-> StrValue(<<>>)]>> \o rest
            ELSE rest

render_template(template, params, strict) ==
    LET validation == validate(template.slots, params)
    IN IF strict /\ ~validation.is_valid
       THEN [success |-> FALSE, rendered_text |-> None, errors |-> validation.errors]
       ELSE [success |-> TRUE,
             rendered_text |-> Some(interpolate(template.text,
                                                FinalParams(template.slots, params))),
             errors |-> <<>>]

\* the templates, slot lists and parameter dicts of the model
RenderPieces == {Placeholder(n) : n \in RenderNames} \cup {<<"x">>}

RECURSIVE Concat(_)
Concat(pieces) == IF pieces = <<>> THEN <<>> ELSE Head(pieces) \o Concat(Tail(pieces))

RenderTexts == {Concat(ps) : ps \in UNION {[1..n -> RenderPieces] : n \in 1..MaxPieces}}

RenderSlots ==
    {s \in UNION {[1..n -> [name : RenderNames, slot_type : {"text", "numeric"},
                            required : BOOLEAN,
                            default_value : {None, Some(<<"d">>)}]] :
                    n \in 1..Cardinality(RenderNames)} :
        \A i, j \in 1..Len(s) : i # j => s[i].name # s[j].name}

RenderValues ==
    {StrValue(<<"v">>), IntValue(7)} \cup {StrValue(Placeholder(n)) : n \in RenderNames}

RenderParams ==
    {p \in UNION {[1..n -> [name : RenderNames, value : RenderValues]] :
                    n \in 0..Cardinality(RenderNames)} :
        \A i, j \in 1..Len(p) : i # j => p[i].name # p[j].name}

InitRender ==
    \E text \in RenderTexts, slots \in RenderSlots, params \in RenderParams :
        /\ prompts = <<>>
        /\ families = <<>>
        /\ templates = <<>>
        /\ report = [NoReport EXCEPT !.op = "render_template",
                       !.batch = <<[text |-> text, slots |-> slots, params |-> params]>>]
        /\ cw = IdleWorker
        /\ tp = <<>>
        /\ last = NoLast
        /\ iw = IngestLoopStart
        /\ lineage = <<>>

RenderTemplate ==
    /\ \E strict \in BOOLEAN :
          last' = [op |-> "render_template", strict |-> strict,
                   result |-> render_template(report.batch[1], report.batch[1].params, strict)]
    /\ UNCHANGED <<prompts, families, templates, report, cw, tp, iw, lineage>>

NextRender == RenderTemplate

SpecRender == InitRender /\ [][NextRender]_vars

\* text contains pat
C24_Contains(text, pat) ==
    \E i \in 1..(Len(text) - Len(pat) + 1) : SubSeq(text, i, i + Len(pat) - 1) = pat

\* no supplied value and no default looks like a placeholder
C24_PlainValues(call) ==
    \A i \in 1..Len(call.params) : ~C24_Contains(ToStr(call.params[i].value), <<"{">>)

\* C24: strict rendering with invalid parameters returns a failure with the
\* error list and no text; non-strict rendering always returns a text in
\* which no declared slot's placeholder remains.
C24_StrictFailsNonStrictFills ==
    last.op = "render_template"
       => LET call == report.batch[1]
              result == last.result
          IN /\ (last.strict /\ ~validate(call.slots, call.params).is_valid)
                   => /\ ~result.success
                      /\ IsNone(result.rendered_text)
                      /\ result.errors = validate(call.slots, call.params).errors
                      /\ result.errors # <<>>
             /\ (~last.strict /\ C24_PlainValues(call))
                   => /\ result.success
                      /\ \A i \in 1..Len(call.slots) :
                            ~C24_Contains(Val(result.rendered_text),
                                          Placeholder(call.slots[i].name))


\* one simultaneous substitution: the text is read once from the left and a
\* placeholder of params is replaced by its value, which is not read again
RECURSIVE C25_Simultaneous(_, _)
C25_Simultaneous(text, params) ==
    IF text = <<>> THEN <<>>
    ELSE IF \E i \in 1..Len(params) :
               /\ Len(text) >= Len(Placeholder(params[i].name))
               /\ SubSeq(text, 1, Len(Placeholder(params[i].name)))
                     = Placeholder(params[i].name)
         THEN LET i == CHOOSE i \in 1..Len(params) :
                          /\ Len(text) >= Len(Placeholder(params[i].name))
                          /\ SubSeq(text, 1, Len(Placeholder(params[i].name)))
                                = Placeholder(params[i].name)
              IN ToStr(params[i].value)
                    \o C25_Simultaneous(SubSeq(text, Len(Placeholder(params[i].name)) + 1,
                                               Len(text)), params)
         ELSE <<Head(text)>> \o C25_Simultaneous(Tail(text), params)

\* C25: the rendered text is the template text with every {{name}} replaced
\* by its parameter's string in one simultaneous substitution; text inside a
\* supplied value is copied literally.
C25_LiteralSimultaneousSubstitution ==
    (last.op = "render_template" /\ last.result.success)
       => Val(last.result.rendered_text)
             = C25_Simultaneous(report.batch[1].text,
                                FinalParams(report.batch[1].slots, report.batch[1].params))


----------------------------------------------------------------------------
(* packages/ingestion/normalizer.py applied to pairs of raw texts *)

MaxTextLen == 3       \* characters in a raw text

NormChars == {"A", "!", " ", "\t"}

NormTexts == UNION {[1..n -> NormChars] : n \in 0..MaxTextLen}

InitNormalize ==
    \E x \in NormTexts, y \in NormTexts :
        /\ prompts = <<>>
        /\ families = <<>>
        /\ templates = <<>>
        /\ report = [NoReport EXCEPT !.op = "normalize_text", !.batch = <<x, y>>]
        /\ cw = IdleWorker
        /\ tp = <<>>
        /\ last = NoLast
        /\ iw = IngestLoopStart
        /\ lineage = <<>>

\* both texts are normalized, normalized again, and hashed as
\* map_log_to_instance and process_raw_prompt hash them
NormalizeTexts ==
    /\ last' = [op |-> "normalize_text",
                normalized |-> [i \in 1..2 |-> normalize_text(report.batch[i])],
                again |-> [i \in 1..2 |-> normalize_text(normalize_text(report.batch[i]))],
                dedup_hash |-> [i \in 1..2 |-> compute_hash(normalize_text(report.batch[i]))]]
    /\ UNCHANGED <<prompts, families, templates, report, cw, tp, iw, lineage>>

NextNormalize == NormalizeTexts

SpecNormalize == InitNormalize /\ [][NextNormalize]_vars

\* C26: normalize_text is idempotent, and two texts with the same normalized
\* form get the same dedup_hash.
C26_NormalizeIdempotent ==
    last.op = "normalize_text"
       => /\ \A i \in 1..2 : last.again[i] = last.normalized[i]
          /\ last.normalized[1] = last.normalized[2]
                => last.dedup_hash[1] = last.dedup_hash[2]
          /\ \A i \in 1..2 : last.normalized[i] = normalize_text(report.batch[i])

\* two different raw texts, both changed by normalization, with one
\* normalized form
C26_Witness ==
    /\ last.op = "normalize_text"
    /\ report.batch[1] # report.batch[2]
    /\ last.normalized[1] = last.normalized[2]
    /\ last.normalized[1] # <<>>
    /\ last.normalized[1] # report.batch[1]
    /\ last.dedup_hash[1] = last.dedup_hash[2]


----------------------------------------------------------------------------
(* Lineage: ProcessingService.classify_new_prompt, LineageRepository and the
   evolve command *)

MaxLineagePrompts == 5      \* rows the store may hold in the lineage model
MaxLinks == 4               \* rows the lineage table may hold

\* texts typed into add while a family exists
LineageTexts == {<<"a", "b">>, <<"d", "d">>, <<"b">>, <<"c">>, <<"A", "!">>}

\* two prompts added before any family existed, then put in one family by a
\* classification pass
SeededStore ==
    LET one == create_from_dna(<<>>, [extract_dna(<<"d">>) EXCEPT !.embedding = embed(<<"d">>)],
                               <<"d">>)
        two == create_from_dna(one, [extract_dna(<<"a">>) EXCEPT !.embedding = embed(<<"a">>)],
                               <<"a">>)
    IN update_family(update_family(two, DnaId(<<"d">>), 1), DnaId(<<"a">>), 1)

InitLineage ==
    /\ prompts = SeededStore
    /\ families = create_family(<<>>, <<"family">>, 2, None)
    /\ templates = <<>>
    /\ report = NoReport
    /\ cw = IdleWorker
    /\ tp = <<>>
    /\ last = NoLast
    /\ iw = IngestLoopStart
    /\ lineage = <<>>

LinksTo(lin, current_id) == SelectSeq(lin, LAMBDA l : l.child_prompt_id = current_id)
LinksFrom(lin, current_id) == SelectSeq(lin, LAMBDA l : l.parent_prompt_id = current_id)

\* traverse_up and its loop over the parent links; st holds visited and chain
RECURSIVE traverse_up(_, _, _, _)
RECURSIVE UpLinks(_, _, _, _)
traverse_up(lin, current_id, path, st) ==
    IF current_id \in st.visited THEN st
    ELSE UpLinks(lin, LinksTo(lin, current_id), path,
                 [st EXCEPT !.visited = @ \cup {current_id}])

UpLinks(lin, links, path, st) ==
    IF links = <<>> THEN st
    ELSE LET new_path == <<Head(links).parent_prompt_id>> \o path
             entered == [st EXCEPT !.chain = Append(@,
                           [prompt_id |-> Head(links).parent_prompt_id,
                            direction |-> "ancestor", path |-> new_path])]
         IN UpLinks(lin, Tail(links), path,
                    traverse_up(lin, Head(links).parent_prompt_id, new_path, entered))

\* traverse_down and its loop over the child links
RECURSIVE traverse_down(_, _, _, _)
RECURSIVE DownLinks(_, _, _, _)
traverse_down(lin, current_id, path, st) ==
    IF current_id \in st.visited THEN st
    ELSE DownLinks(lin, LinksFrom(lin, current_id), path,
                   [st EXCEPT !.visited = @ \cup {current_id}])

DownLinks(lin, links, path, st) ==
    IF links = <<>> THEN st
    ELSE LET new_path == Append(path, Head(links).child_prompt_id)
             entered == [st EXCEPT !.chain = Append(@,
                           [prompt_id |-> Head(links).child_prompt_id,
                            direction |-> "descendant", path |-> new_path])]
         IN DownLinks(lin, Tail(links), path,
                      traverse_down(lin, Head(links).child_prompt_id, new_path, entered))

\* LineageRepository.get_lineage_chain.  visited holds the prompt itself when
\* the walk down starts, so that walk returns at once.
get_lineage_chain(lin, prompt_id) ==
    LET root == [prompt_id |-> prompt_id, direction |-> "current", path |-> <<prompt_id>>]
        up == traverse_up(lin, prompt_id, <<prompt_id>>,
                          [visited |-> {}, chain |-> <<root>>])
        down == traverse_down(lin, prompt_id, <<prompt_id>>,
                              [visited |-> {prompt_id}, chain |-> up.chain])
    IN down.chain

LineageAdd ==
    /\ Len(lineage) < MaxLinks
    /\ \E text \in LineageTexts, embedOk \in BOOLEAN : Add(text, embedOk, MaxLineagePrompts)

\* the evolve command on a stored prompt
EvolveCommand ==
    \E i \in 1..Len(prompts) :
        /\ last' = [op |-> "evolve", prompt_id |-> prompts[i].prompt_id,
                    chain |-> get_lineage_chain(lineage, prompts[i].prompt_id)]
        /\ UNCHANGED <<prompts, families, templates, report, cw, tp, iw, lineage>>

NextLineage == LineageAdd \/ EvolveCommand

SpecLineage == InitLineage /\ [][NextLineage]_vars

\* the prompts reachable from a set of prompts over parent -> child links
RECURSIVE C27_Reach(_, _)
C27_Reach(lin, S) ==
    LET more == S \cup {lin[i].child_prompt_id :
                          i \in {j \in 1..Len(lin) : lin[j].parent_prompt_id \in S}}
    IN IF more = S THEN S ELSE C27_Reach(lin, more)

C27_OwnAncestor(lin, p) ==
    p \in C27_Reach(lin, {l.child_prompt_id : l \in {lin[i] : i \in
                              {j \in 1..Len(lin) : lin[j].parent_prompt_id = p}}})

\* C27: the lineage links form a DAG (no prompt is its own ancestor over
\* parent -> child links) and get_lineage_chain ends on every stored graph,
\* with at most one entry per link and direction besides the prompt itself.
C27_LineageIsDAG ==
    /\ \A i \in 1..Len(prompts) : ~C27_OwnAncestor(lineage, prompts[i].prompt_id)
    /\ last.op = "evolve" => Len(last.chain) <= 1 + 2 * Len(lineage)


----------------------------------------------------------------------------
(* Nearest-centroid assignment in an incremental tick: a store that a full *)
(* pass has left with one or two families, logs arriving, worker ticks     *)

MaxNearest == 6     \* prompts the store may hold in the nearest-centroid model

\* the texts the full pass saw, in table order
SeedTexts == {<<<<"c">>, <<"a">>>>, <<<<"a">>, <<"b">>>>, <<<<"d">>, <<"b">>>>,
              <<<<"a">>, <<"b">>, <<"c">>, <<"d">>>>}

RECURSIVE SeedRows(_)
SeedRows(texts) ==
    IF texts = <<>> THEN <<>>
    ELSE LET text == texts[Len(texts)]
         IN create_from_dna(SeedRows(SubSeq(texts, 1, Len(texts) - 1)),
                            [extract_dna(text) EXCEPT !.embedding = embed(text)], text)

\* steps 5 to 7 of a full pass over the rows: families with their centroids,
\* and the rows with their family
AfterFullPass(store, labels) ==
    LET ids == FullPassIds(store)
        fams == StoreFamilies(<<>>, store, labels, ClusterOrder(labels, {}), FallbackNames)
    IN [store |-> AssignAll(store, ids, fams, labels, FallbackNames), families |-> fams]

InitNearest ==
    \E texts \in SeedTexts :
      \E labels \in {l \in Clusterings(FullPassIds(SeedRows(texts)), SeedRows(texts)) :
                        \A i \in 1..Len(l) : l[i] # -1} :
        /\ prompts = AfterFullPass(SeedRows(texts), labels).store
        /\ families = AfterFullPass(SeedRows(texts), labels).families
        /\ templates = <<>>
        /\ report = NoReport
        /\ cw = IdleWorker
        /\ tp = <<>>
        /\ last = NoLast
        /\ iw = IngestLoopStart
        /\ lineage = <<>>

\* a log reaches the store through ingest --source=portkey
NearestArrive ==
    /\ Len(prompts) < MaxNearest
    /\ \E k \in 1..NumLogs :
          LET st == IngestPortkeyLoop([store |-> prompts, saved |-> 0, duplicates |-> 0],
                                      <<map_log_to_instance(k)>>)
          IN /\ prompts' = st.store
             /\ report' = [NoReport EXCEPT !.op = "ingest_portkey", !.batch = <<k>>,
                             !.saved = st.saved, !.duplicates = st.duplicates]
    /\ UNCHANGED <<families, templates, cw, tp, last, iw, lineage>>

\* a tick of the classification worker past the bootstrap check
NearestTick ==
    LET classified == get_classified_count(prompts)
    IN /\ classified >= BOOTSTRAP_THRESHOLD
       /\ \E batch \in get_pending(prompts, batch_size) : IncrementalRun(classified, batch)

NextNearest == NearestArrive \/ NearestTick

SpecNearest == InitNearest /\ [][NextNearest]_vars

\* similarities of a prompt's embedding to the centroids of the table
C29_Similarities(row, fams) ==
    LET centroids == get_all_centroids(fams)
    IN [k \in 1..Len(centroids) |->
          [family_id |-> centroids[k].family_id,
           similarity |-> cosine_similarity(embed(row.normalized_text),
                                            centroids[k].centroid.sum)]]

\* the prompts a step of the worker embedded and compared
C29_ProcessedNow ==
    {i \in 1..Len(prompts) :
        /\ IsNone(prompts[i].embedding_vector)
        /\ prompts[i].prompt_id \in last'.processed
        /\ ~IsNone(prompts'[i].embedding_vector)}

\* C29: a prompt processed in an incremental tick with a non-empty centroid
\* table gets a family whose centroid has the maximum cosine similarity to its
\* embedding if that maximum reaches the assignment threshold, and no family
\* otherwise; no other centroid is strictly more similar than the chosen one.
C29_NearestCentroidOrNone ==
    [][last'.op = "run_cycle" =>
         \A i \in C29_ProcessedNow :
            LET sims == C29_Similarities(prompts[i], families)
                best == CHOOSE m \in {sims[k].similarity : k \in 1..Len(sims)} :
                           \A k \in 1..Len(sims) : sims[k].similarity <= m
            IN sims # <<>> =>
                 IF best >= similarity_threshold
                 THEN \E k \in 1..Len(sims) :
                         /\ sims[k].family_id = prompts'[i].family_id
                         /\ sims[k].similarity = best
                 ELSE prompts'[i].family_id = NoFamily
      ]_vars

\* after a tick: a processed prompt sits in a family that is not the first of
\* the table and that is strictly nearer than another one
C29_Witness ==
    /\ last.op = "run_cycle"
    /\ \E i \in 1..Len(prompts) :
          /\ prompts[i].prompt_id \in last.processed
          /\ prompts[i].family_id # NoFamily
          /\ LET sims == C29_Similarities(prompts[i], families)
             IN \E k, j \in 1..Len(sims) :
                   /\ j < k
                   /\ sims[k].family_id = prompts[i].family_id
                   /\ sims[k].similarity > sims[j].similarity


----------------------------------------------------------------------------
(* The result of TemplatePipeline.update_family against what it wrote *)

\* C30: update_family answers success = false only when it has written
\* nothing (no template row, is_active flag, seed flag or family tracking
\* field changed), and a call that commits a new template row answers
\* success = true.
C30_FailureWritesNothing ==
    [][\A p \in 1..NumProcs :
          (tp[p].pc = "read" /\ tp'[p].pc = "idle" /\ last'.op = "update_family")
             => /\ ~last'.success => UNCHANGED <<templates, prompts, families>>
                /\ Len(templates') > Len(templates) => last'.success
      ]_vars


----------------------------------------------------------------------------
(* Pending prompts: a store that a full pass has left with families and    *)
(* with prompts labelled as noise (embedded, no family), logs arriving,    *)
(* worker ticks                                                            *)

InitPending ==
    \E texts \in SeedTexts :
      \E labels \in Clusterings(FullPassIds(SeedRows(texts)), SeedRows(texts)) :
        /\ \E i \in 1..Len(labels) : labels[i] # -1
        /\ prompts = AfterFullPass(SeedRows(texts), labels).store
        /\ families = AfterFullPass(SeedRows(texts), labels).families
        /\ templates = <<>>
        /\ report = NoReport
        /\ cw = IdleWorker
        /\ tp = <<>>
        /\ last = NoLast
        /\ iw = IngestLoopStart
        /\ lineage = <<>>

SpecPending == InitPending /\ [][NextNearest]_vars

\* a prompt with a text and without a family that has a centroid within the
\* threshold
C31_Assignable(row, fams) ==
    /\ row.family_id = NoFamily
    /\ Truthy(row.normalized_text)
    /\ \E k \in 1..Len(C29_Similarities(row, fams)) :
          C29_Similarities(row, fams)[k].similarity >= similarity_threshold

\* C31: a tick that passes both gates draws its batch from all prompts that
\* lack an embedding or a family: when it ends with room left in its batch,
\* no prompt without a family that has a centroid within the threshold is
\* left without a family.
C31_BatchFromAllPending ==
    [][(/\ Len(prompts') = Len(prompts)
        /\ get_classified_count(prompts) >= BOOTSTRAP_THRESHOLD
        /\ get_pending_count(prompts) >= batch_size
        /\ get_all_centroids(families) # <<>>
        /\ Cardinality(C29_ProcessedNow) < batch_size)
          => \A i \in 1..Len(prompts) :
                C31_Assignable(prompts[i], families) => prompts'[i].family_id # NoFamily
      ]_vars


----------------------------------------------------------------------------
(* packages/template_engine/versioning.py applied to pairs of templates *)

MaxSlots == 2       \* slots of a template in the versioning model

BumpSlots == [name : {"x", "y"}, type : {"text", "number"}]

BumpTemplates ==
    [text : {<<"t">>, <<"u">>}, slots : UNION {[1..n -> BumpSlots] : n \in 0..MaxSlots}]

BumpVersions == {<<1, 0, 0>>, <<2, 3, 4>>}

InitBump ==
    \E old_template \in BumpTemplates, new_template \in BumpTemplates,
       old_version \in BumpVersions :
        /\ prompts = <<>>
        /\ families = <<>>
        /\ templates = <<>>
        /\ report = [NoReport EXCEPT !.op = "compute_version_bump",
                                     !.batch = <<old_template, new_template, old_version>>]
        /\ cw = IdleWorker
        /\ tp = <<>>
        /\ last = NoLast
        /\ iw = IngestLoopStart
        /\ lineage = <<>>

ComputeBump ==
    /\ last' = [op |-> "compute_version_bump",
                result |-> compute_version_bump(report.batch[1], report.batch[2],
                                                report.batch[3])]
    /\ UNCHANGED <<prompts, families, templates, report, cw, tp, iw, lineage>>

NextBump == ComputeBump

SpecBump == InitBump /\ [][NextBump]_vars

C32_Names(t) == {t.slots[i].name : i \in 1..Len(t.slots)}

C32_Retyped(old, new) ==
    \E i \in 1..Len(old.slots), j \in 1..Len(new.slots) :
        old.slots[i].name = new.slots[j].name /\ old.slots[i].type # new.slots[j].type

C32_Major(old, new) == C32_Names(old) \ C32_Names(new) # {} \/ C32_Retyped(old, new)

C32_Added(old, new) == C32_Names(new) \ C32_Names(old) # {}

\* C32: the bump is MAJOR iff a slot name of old is absent from new or a slot
\* of both changed type; MINOR iff a slot was added and nothing is MAJOR;
\* PATCH iff names and types are unchanged and the text differs; NONE iff none
\* of these differ; the new version is (m+1,0,0), (m,n+1,0), (m,n,p+1) or the
\* old version.
C32_BumpRules ==
    last.op = "compute_version_bump" =>
        LET old == report.batch[1]
            new == report.batch[2]
            v == report.batch[3]
            r == last.result
        IN /\ r.bump_type = "major" <=> C32_Major(old, new)
           /\ r.bump_type = "minor" <=> (C32_Added(old, new) /\ ~C32_Major(old, new))
           /\ r.bump_type = "patch" <=> (/\ ~C32_Added(old, new) /\ ~C32_Major(old, new)
                                         /\ old.text # new.text)
           /\ r.bump_type = "none" <=> (/\ ~C32_Added(old, new) /\ ~C32_Major(old, new)
                                        /\ old.text = new.text)
           /\ r.bump_type = "major" => r.new_version = <<v[1] + 1, 0, 0>>
           /\ r.bump_type = "minor" => r.new_version = <<v[1], v[2] + 1, 0>>
           /\ r.bump_type = "patch" => r.new_version = <<v[1], v[2], v[3] + 1>>
           /\ r.bump_type = "none" => r.new_version = v

\* a slot removed and another added at once: MAJOR, from 2.3.4 to 3.0.0
C32_Witness ==
    /\ last.op = "compute_version_bump"
    /\ C32_Names(report.batch[1]) \ C32_Names(report.batch[2]) # {}
    /\ C32_Added(report.batch[1], report.batch[2])
    /\ ~C32_Retyped(report.batch[1], report.batch[2])
    /\ report.batch[3] = <<2, 3, 4>>
    /\ last.result = [bump_type |-> "major", new_version |-> <<3, 0, 0>>]


----------------------------------------------------------------------------
(* Clusters and families of one full pass *)

\* C33: within one full clustering pass distinct non-noise clusters are mapped
\* to distinct families, whatever names the name provider returns.
C33_ClustersGetDistinctFamilies ==
    \A k, j \in 1..Len(cw.c2f) :
        (k # j /\ cw.c2f[k] # NoFamily /\ cw.c2f[j] # NoFamily) => cw.c2f[k] # cw.c2f[j]


----------------------------------------------------------------------------
(* A store written only by the ingestion worker *)

NextDedup == IngestWorkerTick

SpecDedup == InitIngest /\ [][NextDedup]_vars

C34_Fp(row) == FromHex(Val(row.simhash))

\* C34: in a store written only by ingestion-worker ticks, any two distinct
\* stored prompts have SimHashes that differ in more than Threshold bits,
\* two prompts saved in the same batch included.
C34_StoredSimhashesFarApart ==
    \A i, j \in 1..Len(prompts) :
        i # j => /\ ~IsNone(prompts[i].simhash)
                 /\ ~IsNone(prompts[j].simhash)
                 /\ hamming_distance(C34_Fp(prompts[i]), C34_Fp(prompts[j])) > Threshold

\* a tick saved two prompts of one batch, each after a scan of the index
C34_Witness ==
    /\ report.op = "tick"
    /\ report.saved >= 2
    /\ Len(report.lookups) >= 2
    /\ Len(prompts) >= 2


----------------------------------------------------------------------------
(* packages/llm/client.py, packages/llm/mock_client.py and                  *)
(* TemplateGenerator._extract_template: one template extraction with an LLM *)
(* that may fail                                                            *)

max_retries == 3

\* a prompt text as tokens: a plain word, or a placeholder in one of the
\* styles of VARIABLE_PATTERNS ($name, <name>); {{name}} is what the mock writes
Word(w) == [style |-> "word", name |-> w]
Spelled(style, name) == [style |-> style, name |-> name]
MockTokens == {Word("a"), Spelled("dollar", "x"), Spelled("angle", "y")}

MaxDnaLen == 2      \* tokens in one prompt text
MaxDnas == 2        \* prompts handed to one extraction

DnaTexts == UNION {[1..n -> MockTokens] : n \in 1..MaxDnaLen}
DnaLists == UNION {[1..n -> DnaTexts] : n \in 0..MaxDnas}

\* _detect_variables: the placeholder names of a text
detected(text) == {text[i].name : i \in {j \in 1..Len(text) : text[j].style # "word"}}

\* MockLLMClient.extract_template: the first prompt's text, in which the
\* {{v}}, {v}, $v and [v] spellings of every detected variable become {{v}}
MockExtractTemplate(prompt_dnas) ==
    IF prompt_dnas = <<>> THEN [source |-> "mock", text |-> <<>>, variables |-> {}]
    ELSE LET base_text == prompt_dnas[1]
             all_variables == UNION {detected(prompt_dnas[i]) : i \in 1..Len(prompt_dnas)}
         IN [source |-> "mock",
             text |-> [i \in 1..Len(base_text) |->
                         IF /\ base_text[i].style \in {"double", "single", "dollar", "bracket"}
                            /\ base_text[i].name \in all_variables
                         THEN Spelled("double", base_text[i].name)
                         ELSE base_text[i]],
             variables |-> all_variables]

\* what the provider may answer when a call succeeds
LLMAnswers ==
    {[source |-> "llm", text |-> <<Word("a"), Spelled("double", "topic")>>,
      variables |-> {"topic"}],
     [source |-> "llm", text |-> <<Word("a")>>, variables |-> {}]}

\* a wait that starts at two seconds
wait_time_from_two(attempt) == 2 ^ (attempt + 1)

\* wait_time = 2 ** attempt
wait_time(attempt) == 2 ^ attempt

NoTemplateYet == [source |-> "none", text |-> <<>>, variables |-> {}]

\* _extract_template has been called with the prompts; nothing has run yet
InitRetry ==
    /\ prompts = <<>>
    /\ families = <<>>
    /\ templates = <<>>
    /\ report = NoReport
    /\ cw = IdleWorker
    /\ tp = <<>>
    /\ iw = IngestLoopStart
    /\ lineage = <<>>
    /\ \E dnas \in DnaLists, available \in BOOLEAN :
          last = [op |-> "_extract_template",
                  pc |-> "start",             \* start, call, sleep, exhausted, done
                  prompt_dnas |-> dnas,
                  available |-> available,    \* LLMClient._is_available()
                  attempt |-> 0,
                  calls |-> 0,                \* calls made to the provider
                  waits |-> <<>>,             \* the asyncio.sleep calls, in seconds
                  raised |-> FALSE,           \* the LLM client raised to _extract_template
                  result |-> NoTemplateYet]

\* LLMClient.extract_template up to its call of _call_with_retry; an
\* unavailable client raises, and _extract_template answers with the mock
ExtractStart ==
    /\ last.op = "_extract_template" /\ last.pc = "start"
    /\ last' = IF last.prompt_dnas = <<>>
               THEN [last EXCEPT !.pc = "done",
                                 !.result = [source |-> "llm", text |-> <<>>, variables |-> {}]]
               ELSE IF ~last.available
               THEN [last EXCEPT !.pc = "done", !.raised = TRUE,
                                 !.result = MockExtractTemplate(last.prompt_dnas)]
               ELSE [last EXCEPT !.pc = "call"]
    /\ UNCHANGED <<prompts, families, templates, report, cw, tp, iw, lineage>>

\* one pass of the for loop of _call_with_retry up to its await
CallAttempt ==
    /\ last.op = "_extract_template" /\ last.pc = "call"
    /\ \/ \E answer \in LLMAnswers :
            last' = [last EXCEPT !.pc = "done", !.calls = @ + 1, !.result = answer]
       \/ last' = [last EXCEPT !.calls = @ + 1,
                               !.pc = IF last.attempt < max_retries - 1 THEN "sleep"
                                      ELSE "exhausted"]
    /\ UNCHANGED <<prompts, families, templates, report, cw, tp, iw, lineage>>

\* await asyncio.sleep(wait_time), then the next attempt
RetrySleep ==
    /\ last.op = "_extract_template" /\ last.pc = "sleep"
    /\ last' = [last EXCEPT !.pc = "call", !.waits = Append(@, wait_time(last.attempt)),
                            !.attempt = @ + 1]
    /\ UNCHANGED <<prompts, families, templates, report, cw, tp, iw, lineage>>

\* raise last_error: extract_template logs and re-raises, _extract_template
\* catches and returns the mock's template
RetryExhausted ==
    /\ last.op = "_extract_template" /\ last.pc = "exhausted"
    /\ last' = [last EXCEPT !.pc = "done", !.raised = TRUE,
                            !.result = MockExtractTemplate(last.prompt_dnas)]
    /\ UNCHANGED <<prompts, families, templates, report, cw, tp, iw, lineage>>

NextRetry == ExtractStart \/ CallAttempt \/ RetrySleep \/ RetryExhausted

SpecRetry == InitRetry /\ [][NextRetry]_vars

\* the call of _call_with_retry failed on every attempt and the extraction is over
C35_KeptFailing ==
    /\ last.op = "_extract_template"
    /\ last.pc = "done"
    /\ last.raised
    /\ last.calls > 0

\* C35 as stated: an LLM call that keeps failing is attempted exactly 3 times
\* with waits of 1s, 2s and 4s after the failed attempts, and the extraction
\* then returns the mock's template.
C35_ThreeAttemptsThreeWaits ==
    C35_KeptFailing =>
        /\ last.calls = 3
        /\ last.waits = <<1, 2, 4>>
        /\ last.result = MockExtractTemplate(last.prompt_dnas)

\* C35 amended: an LLM call that keeps failing is attempted exactly 3 times
\* with waits of 1s and 2s between the attempts and none after the third; the
\* error is then raised and the extraction returns the mock's template.
C35_ThreeAttemptsTwoWaits ==
    C35_KeptFailing =>
        /\ last.calls = 3
        /\ last.waits = <<1, 2>>
        /\ last.result = MockExtractTemplate(last.prompt_dnas)
        /\ last.result.source = "mock"

C35_Witness ==
    /\ C35_KeptFailing
    /\ last.result.variables # {}
    /\ last.result.text # last.prompt_dnas[1]


----------------------------------------------------------------------------
(* The order of one incremental batch *)

\* the ids of the n pending rows created first
C36_OldestPending(store, n) ==
    [i \in 1..n |-> PendingRows(store)[i].prompt_id]

\* C36: the batch of an incremental tick consists of the oldest pending
\* prompts and is processed in creation order.
C36_BatchInCreationOrder ==
    [][(/\ Len(prompts') = Len(prompts)
        /\ prompts' # prompts
        /\ last'.op = "run_cycle"
        /\ cw'.mode = "incremental")
          => cw'.batch = C36_OldestPending(prompts, Len(cw'.batch))]_vars


----------------------------------------------------------------------------
(* Member counts after an incremental tick *)

C37_CountsMatch(fams, store) ==
    \A i \in 1..Len(fams) :
        fams[i].member_count = Len(get_by_family(store, fams[i].family_id))

\* C37: after every incremental tick that passes both gates and completes its
\* batch, every family's member_count equals the number of stored prompts
\* whose family_id is that family.
C37_MemberCountsRecounted ==
    [][(/\ report' = report
        /\ last'.op = "run_cycle"
        /\ cw'.mode = "incremental"
        /\ get_classified_count(prompts) >= BOOTSTRAP_THRESHOLD
        /\ get_pending_count(prompts) >= batch_size
        /\ get_all_centroids(families) # <<>>)
          => C37_CountsMatch(families', prompts')]_vars

\* a completed tick gave a family a new member, and the family's count
\* includes it
C37_Witness ==
    /\ last.op = "run_cycle"
    /\ cw.mode = "incremental"
    /\ cw.assigned > 0
    /\ \E i \in 1..Len(families) : \E id \in cw.decided :
          /\ get_by_id(prompts, id)[1].family_id = families[i].family_id
          /\ families[i].member_count = Len(get_by_family(prompts, families[i].family_id))


----------------------------------------------------------------------------
(* Incremental ticks with a prompt whose embedding call always fails *)

\* EmbeddingModel.embed raises for one text, every time it is asked; the text
\* is in no cache because no call for it ever succeeded
embed_raises(text) == text = <<"c">>

\* the loop of run_cycle: embed_text raises out of the loop, the rows
\* committed before it stay committed
RECURSIVE IncLoopRaising(_, _, _, _)
IncLoopRaising(store, queue, centroids, done) ==
    IF queue = <<>> THEN [store |-> store, assigned |-> done.assigned,
                          processed |-> done.processed, raised |-> FALSE]
    ELSE LET row == get_by_id(store, Head(queue))[1]
         IN IF ~Truthy(row.normalized_text)
            THEN IncLoopRaising(store, Tail(queue), centroids, done)
            ELSE IF embed_raises(row.normalized_text)
            THEN [store |-> store, assigned |-> done.assigned,
                  processed |-> done.processed, raised |-> TRUE]
            ELSE LET embedding == embed(row.normalized_text)
                     hit == find_nearest_family(embedding, centroids)
                 IN CHOOSE out \in
                      {IncLoopRaising(next, Tail(queue), centroids,
                                      [assigned |-> IF hit.family_id # NoFamily
                                                    THEN done.assigned + 1 ELSE done.assigned,
                                       processed |-> done.processed \cup {row.prompt_id}]) :
                         next \in {update_embedding_and_family(store, row.prompt_id, embedding,
                                                               hit.family_id)}} : TRUE

\* the end of a cycle whose loop has ended: a raise leaves run_cycle at once,
\* otherwise the member counts are set and the template sweep runs
EmbedFailEnd(started, loop) ==
    IF started.outcome # "running"
    THEN [store |-> prompts, families |-> families, outcome |-> started.outcome,
          processed |-> {}, assigned |-> 0, raised |-> FALSE]
    ELSE IF loop.raised
    THEN [store |-> loop.store, families |-> families, outcome |-> "failed",
          processed |-> loop.processed, assigned |-> loop.assigned, raised |-> TRUE]
    ELSE CHOOSE out \in
           {[store |-> loop.store, families |-> fams,
             outcome |-> IF loop.assigned > 0
                            /\ process_all_families(fams, fams, templates, loop.store,
                                                    FALSE).raised
                         THEN "failed" ELSE "done",
             processed |-> loop.processed, assigned |-> loop.assigned, raised |-> FALSE] :
              fams \in {update_all_member_counts(families, loop.store)}} : TRUE

\* run_cycle with an embed_text that may raise: what the cycle has committed
\* and reported when it ends.  Ticks are counted modulo 2.
EmbedFailOutcome(classified, batch) ==
    CHOOSE out \in
      {[store |-> end.store,
        families |-> end.families,
        worker |-> [started EXCEPT !.pc = "idle", !.outcome = end.outcome, !.queue = <<>>,
                                   !.tick = (cw.tick + 1) % 2, !.ids = cw.ids,
                                   !.labels = cw.labels, !.c2f = cw.c2f,
                                   !.embedded = end.processed, !.decided = end.processed,
                                   !.assigned = end.assigned],
        stats |-> [op |-> "run_cycle", skipped |-> started.outcome = "skipped",
                   processed |-> end.processed, raised |-> end.raised]] :
         started \in {StartIncremental(classified, batch)},
         end \in {EmbedFailEnd(s, l) :
                    s \in {StartIncremental(classified, batch)},
                    l \in {IncLoopRaising(prompts, batch, get_all_centroids(families),
                                          [assigned |-> 0, processed |-> {}])}}} : TRUE

\* one tick of run_worker around run_cycle: an exception of the cycle is
\* caught and logged by run_worker
EmbedFailTick ==
    /\ get_classified_count(prompts) >= BOOTSTRAP_THRESHOLD
    /\ \E batch \in get_pending(prompts, batch_size) :
         \E out \in {EmbedFailOutcome(get_classified_count(prompts), batch)} :
            /\ prompts' = out.store
            /\ families' = out.families
            /\ cw' = out.worker
            /\ last' = out.stats
    /\ UNCHANGED <<templates, report, tp, iw, lineage>>

\* a store after a full pass over texts the provider embeds
InitEmbedFail ==
    \E texts \in {t \in SeedTexts : \A i \in 1..Len(t) : ~embed_raises(t[i])} :
      \E labels \in {l \in Clusterings(FullPassIds(SeedRows(texts)), SeedRows(texts)) :
                        \A i \in 1..Len(l) : l[i] # -1} :
        /\ prompts = AfterFullPass(SeedRows(texts), labels).store
        /\ families = AfterFullPass(SeedRows(texts), labels).families
        /\ templates = <<>>
        /\ report = NoReport
        /\ cw = IdleWorker
        /\ tp = <<>>
        /\ last = NoLast
        /\ iw = IngestLoopStart
        /\ lineage = <<>>

MaxEmbedFail == 4       \* rows the prompt table may hold in this model

\* the ingest command brings one more log
EmbedFailArrive ==
    /\ Len(prompts) < MaxEmbedFail
    /\ \E k \in 1..NumLogs :
          LET st == IngestPortkeyLoop([store |-> prompts, saved |-> 0, duplicates |-> 0],
                                      <<map_log_to_instance(k)>>)
          IN /\ prompts' = st.store
             /\ report' = [NoReport EXCEPT !.op = "ingest_portkey", !.batch = <<k>>,
                             !.saved = st.saved, !.duplicates = st.duplicates]
    /\ UNCHANGED <<families, templates, cw, tp, last, iw, lineage>>

NextEmbedFail == EmbedFailArrive \/ EmbedFailTick

SpecEmbedFail == InitEmbedFail /\ [][NextEmbedFail]_vars

\* run_worker repeats run_cycle for ever, whatever a cycle raises
SpecEmbedFailFair == SpecEmbedFail /\ WF_vars(EmbedFailTick)

C38_PendingWith(k, failing) ==
    \E i \in 1..Len(prompts) :
        /\ prompts[i].prompt_id = LogId(k)
        /\ IsNone(prompts[i].embedding_vector)
        /\ Truthy(prompts[i].normalized_text)
        /\ embed_raises(prompts[i].normalized_text) = failing

\* a prompt the provider can embed is pending together with the failing one,
\* and the gates of the tick are open
C38_Waiting(k) ==
    /\ C38_PendingWith(k, FALSE)
    /\ \E f \in LogIds : C38_PendingWith(f, TRUE)
    /\ get_classified_count(prompts) >= BOOTSTRAP_THRESHOLD
    /\ get_pending_count(prompts) >= batch_size
    /\ get_all_centroids(families) # <<>>

C38_Embedded(k) ==
    \E i \in 1..Len(prompts) :
        prompts[i].prompt_id = LogId(k) /\ ~IsNone(prompts[i].embedding_vector)

\* C38: a prompt whose embedding call fails on every attempt does not block
\* the others: under repeated ticks every other pending prompt that fits in
\* the batch with it is eventually embedded (unless more prompts arrive than
\* one batch holds).
C38_OthersEventuallyEmbedded ==
    \A k \in LogIds :
        C38_Waiting(k) ~> (C38_Embedded(k) \/ Len(PendingRows(prompts)) > batch_size)


----------------------------------------------------------------------------
(* The export windows of the ingestion worker over several runs of the *)
(* process: the state file outlives the process, the HTTP client does not *)

MaxWindows == 3     \* successful ticks recorded in one run of the model

\* trigger_export: the filter of one export.  time_of_generation_max is
\* datetime.utcnow() read again inside the tick; in sleep intervals it is the
\* instant of current_run_time
trigger_export(time_min, now) == [time_min |-> time_min, time_max |-> now]

InitWindows ==
    /\ prompts = <<>>
    /\ families = <<>>
    /\ templates = <<>>
    /\ report = NoReport
    /\ cw = IdleWorker
    /\ tp = <<>>
    /\ last = [op |-> "exports", windows |-> <<>>, started |-> <<>>]
    /\ iw \in {IngestLoopStart, [IngestLoopStart EXCEPT !.state_file = Some(-1)]}
    /\ lineage = <<>>

\* one pass through the try block of the loop, with the filter of its export
\* kept when the tick reached save_state
WindowTick ==
    /\ iw.pc = "tick"
    /\ Len(last.windows) < MaxWindows
    /\ LET last_run_time == load_state(iw.state_file, iw.now)
           current_run_time == iw.now
           ran == [iw EXCEPT !.pc = "sleep", !.time_min = Some(last_run_time),
                             !.client_closed = TRUE]
       IN \E apiOk \in BOOLEAN :
             IF iw.client_closed \/ ~apiOk
             THEN /\ iw' = [ran EXCEPT !.outcome = "failed", !.pc = IngestAfterError,
                                       !.api = IF iw.client_closed THEN "unreached"
                                               ELSE "failed"]
                  /\ report' = [NoReport EXCEPT !.op = "tick", !.errors = 1]
                  /\ UNCHANGED <<prompts, families, templates, cw, tp, last, lineage>>
             ELSE /\ \E batch \in Batches :
                        \E loaded \in Orderings(get_all_simhashes(prompts)) :
                           \E st \in {DedupLoop([store |-> prompts, index |-> loaded,
                                                 saved |-> 0, exact |-> 0, near |-> 0,
                                                 lookups |-> <<>>],
                                                [i \in 1..Len(batch) |->
                                                   map_log_to_instance(batch[i])])} :
                              /\ Len(prompts) + Len(batch) <= MaxPrompts
                              /\ prompts' = st.store
                              /\ report' = [NoReport EXCEPT !.op = "tick", !.batch = batch,
                                              !.saved = st.saved, !.exact = st.exact,
                                              !.near = st.near]
                  /\ \E how \in SaveOutcomes :
                        iw' = [ran EXCEPT !.outcome = "ok", !.api = "ok",
                                          !.state_file = save_state(iw.state_file,
                                                                    current_run_time, how)]
                  /\ last' = [last EXCEPT
                                !.windows = Append(@, trigger_export(last_run_time, iw.now)),
                                !.started = Append(@, current_run_time)]
                  /\ UNCHANGED <<families, templates, cw, tp, lineage>>

\* the process is stopped in its sleep and started again: run_worker builds
\* a new PortKeyIngestor; ingestion_state.json is as the last run left it
WorkerRestart ==
    /\ iw.pc = "sleep"
    /\ iw' = [IngestLoopStart EXCEPT !.state_file = iw.state_file, !.now = iw.now]
    /\ UNCHANGED <<prompts, families, templates, report, cw, tp, last, lineage>>

NextWindows == WindowTick \/ IngestLoopSleep \/ WorkerRestart

SpecWindows == InitWindows /\ [][NextWindows]_vars

\* the latest time_max among the first n exports
RECURSIVE C39_CoveredUpTo(_)
C39_CoveredUpTo(n) ==
    IF n = 1 THEN last.windows[1].time_max
    ELSE LET before == C39_CoveredUpTo(n - 1)
         IN IF last.windows[n].time_max > before THEN last.windows[n].time_max ELSE before

\* C39: the export windows of successive successful ticks leave no gap: every
\* window starts no later than the latest time_max before it, and the start
\* time a tick saves is never later than the time_max of its export.
C39_WindowsLeaveNoGap ==
    /\ \A n \in 2..Len(last.windows) :
          last.windows[n].time_min <= C39_CoveredUpTo(n - 1)
    /\ \A n \in 1..Len(last.windows) :
          last.started[n] <= last.windows[n].time_max

====
